---- MODULE Spec2Model ----
(***************************************************************************)
(* Verification model of the panda-rs-plugins repository.                  *)
(*                                                                         *)
(* Part I - the remote debug bridge (panda-gdb): the emulation thread's    *)
(* host callbacks (lib.rs) and the RSP server thread's target operations   *)
(* (panda_target.rs), coordinated through the process-wide STATE           *)
(* rendezvous (target_state.rs).                                           *)
(***************************************************************************)
EXTENDS Integers, Naturals, Sequences, FiniteSets, TLC

(***************************************************************************)
(* Bounds of the model.                                                    *)
(***************************************************************************)
MaxPC == 1          \* guest program counters are 0..MaxPC
MaxPid == 2         \* guest process ids are 1..MaxPid
MaxInsn == 2        \* instruction callbacks the host delivers in one run
MaxThreads == 1     \* RSP server threads one run of Spec spawns
MoreThreads == 1    \* further threads one run of SpecMoreThreads spawns
MaxBlocks == 2      \* blocks the il_trace block callback captures in one run
MaxCpus == 3        \* hardware threads num_cpus::get() reports: 1..MaxCpus

PCs == 0..MaxPC
\* addresses the RSP client places breakpoints at: the first and the last PC
BreakAddrs == {0, MaxPC}
Pids == 1..MaxPid
Threads == 1..(MaxThreads + MoreThreads)

\* Build features (panda_target.rs:16-29). mipsel shares the mips code, and
\* arm agrees with x86_64 in everything modelled here (process callbacks are
\* compiled in, read_registers takes the PC from STATE.get_pc(),
\* write_registers stores the PC in the CPU struct only), so x86_64 stands
\* for both.
Archs == {"x86_64", "i386", "ppc", "mips"}
\* on_process_start / on_process_end and the `file` argument are compiled
\* only when none of ppc, mips, mipsel, i386 is selected (lib.rs:18,52,61).
ProcArchs == {"x86_64"}

\* ARGS.file: the configured target process name, and another name.
TargetFile == "target"
ProcNames == {"target", "other"}

NoPid == 0          \* STATE pid cell: None
NullCpu == 0        \* STATE cpu cell: null pointer
NoSignal == "none"  \* a Signal holding no payload

VARIABLES
    arch,          \* the architecture the plugin was built for
    phase,         \* host life cycle: "loaded", "running", "shutdown"
    single_step,   \* STATE single-step flag
    breakpoints,   \* STATE breakpoint set
    cpu,           \* STATE published CPU pointer (NullCpu, or the id of the
                   \* instruction callback whose `cpu` argument it is)
    pcCell,        \* STATE shared PC
    pid,           \* STATE attached PID
    brk,           \* Signal<BreakStatus>: pending payload
    brkBy,         \* history: callback id that signalled the pending Break
    cont,          \* Signal<()>: pending payload
    icount,        \* instruction callbacks begun so far
    emu,           \* emulation thread: position inside every_instruction, its
                   \* pc argument, its number and the test that made it break
    dbg,           \* RSP server threads: position and locals of each
    mon,           \* monitor: the command typed and what handling it did
    BB_NUM,        \* il_trace: atomic count of captured blocks
    BBQ_IN,        \* il_trace: queue of captured blocks awaiting their lift
    BBQ_OUT,       \* il_trace: queue of processed blocks
    workers,       \* il_trace: position and block of each worker loop
    il,            \* il_trace: position of the emulation thread in the
                   \* plugin's callbacks and the block it holds
    captured,      \* history: sequence numbers in the order they were given
    bbs_final,     \* finalize_bbs: the vector drained from BBQ_OUT
    asm,           \* the assembler: its block vector and how far it got
    block          \* a BasicBlock and the calls made on it

\* the variables of the il_trace plugin
ilVars ==
    <<BB_NUM, BBQ_IN, BBQ_OUT, workers, il, captured, bbs_final, asm, block>>

vars == <<arch, phase, single_step, breakpoints, cpu, pcCell, pid, brk, brkBy,
          cont, icount, emu, dbg, mon, ilVars>>

\* the variables of the debug bridge
gdbVars == <<phase, single_step, breakpoints, cpu, pcCell, pid, brk, brkBy,
             cont, icount, emu, dbg, mon>>

stateVars == <<single_step, breakpoints, cpu, pcCell, pid, brk, brkBy, cont>>

(***************************************************************************)
(* target_state.rs: Signal<T>, a one-shot-then-reset cell.                 *)
(***************************************************************************)
\* Signal::signal(v): the payload is stored, replacing a pending one.
SignalStore(cell, v) == v
\* Signal::wait_for(): returns only when a payload is pending ...
SignalPending(cell) == cell # NoSignal
\* ... and then takes it, resetting the cell.
SignalReset(cell) == NoSignal

\* STATE.wait_for_cpu(): returns only once a CPU pointer is published.
CpuPublished(c) == c # NullCpu

(***************************************************************************)
(* Locals of an RSP server thread.                                         *)
(***************************************************************************)
NoThread == [at |-> "none", act |-> "-", held |-> NullCpu, res |-> "-",
             contAt |-> 0, nullAtCall |-> FALSE, exitSeen |-> FALSE]
IdleThread == [NoThread EXCEPT !.at = "idle"]

Live(t) == dbg[t].at \notin {"none", "done"}
LiveThreads == {t \in Threads : Live(t)}
FreeSlots == {t \in Threads : dbg[t].at = "none"}
\* the run has spawned fewer than `limit` threads so far
CanSpawn(limit) == Cardinality(Threads \ FreeSlots) < limit
\* std::thread::spawn of GdbStub::run(&mut PandaTarget)
SpawnDebugger(d) == LET t == CHOOSE s \in FreeSlots : \A u \in FreeSlots : s <= u
                    IN  [d EXCEPT ![t] = IdleThread]

\* history: the threads blocked in resume when an Exit is signalled
MarkExit(d) == [t \in Threads |->
                  IF d[t].at = "res_wait" THEN [d[t] EXCEPT !.exitSeen = TRUE]
                  ELSE d[t]]

\* the emulation thread is outside the il_trace callbacks and holds no block
IlAt(pos) == [at |-> pos, bb |-> << >>, cpu_total |-> 0, pool |-> 0]
\* the emulation thread moves on, empty-handed
IlTo(pos) == [il EXCEPT !.at = pos, !.bb = << >>]
\* the assembler has not been given a vector
NoAssembly ==
    [stage |-> "none", by |-> "-", up |-> TRUE, input |-> << >>, list |-> << >>,
     lisp |-> << >>, json |-> << >>]

\* no BasicBlock is under construction outside the pipeline
NoBlock == [at |-> "none"]

\* il_trace statics before #[panda::init] (lib.rs:25-44): the counter is 0,
\* the queues are empty, no worker loop runs.
IlTraceLoaded ==
    /\ BB_NUM = 0
    /\ BBQ_IN = << >>
    /\ BBQ_OUT = << >>
    /\ workers = << >>
    /\ il = IlAt("loaded")
    /\ captured = << >>
    /\ bbs_final = << >>

\* no monitor command has been given
NoMonitor ==
    [stage |-> "none", cmd |-> << >>, dispatched |-> "-", out |-> "-",
     labelled |-> {}, queried |-> {}, cpu_used |-> FALSE]

BridgeLoaded ==
    /\ phase = "loaded"
    /\ single_step = FALSE
    /\ breakpoints = {}
    /\ cpu = NullCpu
    /\ pcCell = 0
    /\ pid = NoPid
    /\ brk = NoSignal
    /\ brkBy = 0
    /\ cont = NoSignal
    /\ icount = 0
    /\ emu = [at |-> "idle", pc |-> 0, id |-> 0, why |-> "-"]
    /\ dbg = [t \in Threads |-> NoThread]

GdbLoaded ==
    /\ BridgeLoaded
    /\ mon = NoMonitor

Init ==
    /\ arch \in Archs
    /\ GdbLoaded
    /\ IlTraceLoaded
    /\ asm = NoAssembly
    /\ block = NoBlock

EmuIdle == [at |-> "idle", pc |-> 0, id |-> 0, why |-> "-"]
EmuAt(pos) == [emu EXCEPT !.at = pos]
HostRunning == phase = "running" /\ emu.at = "idle"

(***************************************************************************)
(* lib.rs: host callbacks, run on the emulation thread.                    *)
(***************************************************************************)
\* #[panda::init] init
PluginInit(on_start, limit) ==
    /\ phase = "loaded"
    /\ phase' = "running"
    /\ IF on_start
       THEN /\ CanSpawn(limit)
            /\ single_step' = TRUE
            /\ dbg' = SpawnDebugger(dbg)
       ELSE UNCHANGED <<single_step, dbg>>
    /\ UNCHANGED <<mon, ilVars, arch, breakpoints, cpu, pcCell, pid, brk, brkBy, cont,
                   icount, emu>>

\* #[panda::pre_shutdown] on_shutdown; no callback is delivered after it.
OnShutdown ==
    /\ HostRunning
    /\ phase' = "shutdown"
    /\ brk' = SignalStore(brk, "Exit")
    /\ brkBy' = 0
    /\ dbg' = MarkExit(dbg)
    /\ UNCHANGED <<mon, ilVars, arch, single_step, breakpoints, cpu, pcCell, pid, cont,
                   icount, emu>>

\* Mutant: the Exit is signalled for the end of any process.
ExitOnAnyProcessEnd(p) ==
    /\ HostRunning
    /\ arch \in ProcArchs
    /\ pid' = IF pid = p THEN NoPid ELSE pid
    /\ brk' = SignalStore(brk, "Exit")
    /\ brkBy' = 0
    /\ dbg' = MarkExit(dbg)
    /\ UNCHANGED <<mon, ilVars, arch, phase, single_step, breakpoints, cpu, pcCell, cont,
                   icount, emu>>

\* #[panda::on_process_end] on_process_end
OnProcessEnd(p) ==
    /\ HostRunning
    /\ arch \in ProcArchs
    /\ IF pid = p
       THEN /\ pid' = NoPid
            /\ brk' = SignalStore(brk, "Exit")
            /\ brkBy' = 0
            /\ dbg' = MarkExit(dbg)
       ELSE UNCHANGED <<pid, brk, brkBy, dbg>>
    /\ UNCHANGED <<mon, ilVars, arch, phase, single_step, breakpoints, cpu, pcCell, cont,
                   icount, emu>>

\* Mutant: the process name is not compared with the configured target.
AttachToAnyName(name, p, limit) ==
    /\ HostRunning
    /\ arch \in ProcArchs
    /\ IF pid = NoPid
       THEN /\ CanSpawn(limit)
            /\ pid' = p
            /\ single_step' = TRUE
            /\ dbg' = SpawnDebugger(dbg)
       ELSE UNCHANGED <<pid, single_step, dbg>>
    /\ UNCHANGED <<mon, ilVars, arch, phase, breakpoints, cpu, pcCell, brk, brkBy, cont,
                   icount, emu>>

\* #[panda::on_process_start] on_process_start
OnProcessStart(name, p, limit) ==
    /\ HostRunning
    /\ arch \in ProcArchs
    /\ IF pid = NoPid /\ name = TargetFile
       THEN /\ CanSpawn(limit)
            /\ pid' = p
            /\ single_step' = TRUE
            /\ dbg' = SpawnDebugger(dbg)
       ELSE UNCHANGED <<pid, single_step, dbg>>
    /\ UNCHANGED <<mon, ilVars, arch, phase, breakpoints, cpu, pcCell, brk, brkBy, cont,
                   icount, emu>>

\* #[panda::insn_exec] every_instruction, one step per STATE operation. The
\* host delivers it for instructions whose translation was instrumented
\* (translate_instr, lib.rs:100-104); translations are cached, so by the time
\* it runs the instruction may or may not still be one to break on.
\* Entry and `STATE.single_stepping()` (lib.rs:85, left operand).
EveryInstructionEnter(pc) ==
    /\ HostRunning
    /\ icount < MaxInsn
    /\ icount' = icount + 1
    /\ emu' = [at |-> IF single_step THEN "ei_clear" ELSE "ei_bp",
               pc |-> pc, id |-> icount + 1,
               why |-> IF single_step THEN "single_stepping" ELSE "-"]
    /\ UNCHANGED <<mon, ilVars, arch, phase, single_step, breakpoints, cpu, pcCell, pid,
                   brk, brkBy, cont, dbg>>

\* Mutant: the callback breaks on every instruction, breakpoint or not.
BreakOnEveryInstruction ==
    /\ emu.at = "ei_bp"
    /\ emu' = [emu EXCEPT !.at = "ei_clear", !.why = "breakpoint"]
    /\ UNCHANGED <<mon, ilVars, arch, phase, single_step, breakpoints, cpu, pcCell, pid,
                   brk, brkBy, cont, icount, dbg>>

\* `STATE.breakpoints_contain(pc)` (lib.rs:85, right operand); the callback
\* returns when the PC is no breakpoint.
EveryInstructionCheckBreakpoint ==
    /\ emu.at = "ei_bp"
    /\ emu' = IF emu.pc \in breakpoints
              THEN [emu EXCEPT !.at = "ei_clear", !.why = "breakpoint"]
              ELSE EmuIdle
    /\ UNCHANGED <<mon, ilVars, arch, phase, single_step, breakpoints, cpu, pcCell, pid,
                   brk, brkBy, cont, icount, dbg>>

\* STATE.stop_single_stepping() (lib.rs:87)
EveryInstructionStopStepping ==
    /\ emu.at = "ei_clear"
    /\ single_step' = FALSE
    /\ emu' = EmuAt("ei_setcpu")
    /\ UNCHANGED <<mon, ilVars, arch, phase, breakpoints, cpu, pcCell, pid, brk, brkBy,
                   cont, icount, dbg>>

\* STATE.set_cpu(cpu) (lib.rs:89)
EveryInstructionSetCpu ==
    /\ emu.at = "ei_setcpu"
    /\ cpu' = emu.id
    /\ emu' = EmuAt("ei_setpc")
    /\ UNCHANGED <<mon, ilVars, arch, phase, single_step, breakpoints, pcCell, pid, brk,
                   brkBy, cont, icount, dbg>>

\* STATE.set_pc(pc) (lib.rs:90)
EveryInstructionSetPc ==
    /\ emu.at = "ei_setpc"
    /\ pcCell' = emu.pc
    /\ emu' = EmuAt("ei_brk")
    /\ UNCHANGED <<mon, ilVars, arch, phase, single_step, breakpoints, cpu, pid, brk,
                   brkBy, cont, icount, dbg>>

\* Mutant: the callback blocks on `cont` without signalling the break.
BlockWithoutSignalBreak ==
    /\ emu.at = "ei_brk"
    /\ emu' = EmuAt("ei_wait")
    /\ UNCHANGED <<mon, ilVars, arch, phase, single_step, breakpoints, cpu, pcCell, pid,
                   brk, brkBy, cont, icount, dbg>>

\* STATE.brk.signal(BreakStatus::Break) (lib.rs:92)
EveryInstructionSignalBreak ==
    /\ emu.at = "ei_brk"
    /\ brk' = SignalStore(brk, "Break")
    /\ brkBy' = emu.id
    /\ emu' = EmuAt("ei_wait")
    /\ UNCHANGED <<mon, ilVars, arch, phase, single_step, breakpoints, cpu, pcCell, pid,
                   cont, icount, dbg>>

\* STATE.cont.wait_for() (lib.rs:94)
EveryInstructionWaitCont ==
    /\ emu.at = "ei_wait"
    /\ SignalPending(cont)
    /\ cont' = SignalReset(cont)
    /\ emu' = EmuAt("ei_unset")
    /\ UNCHANGED <<mon, ilVars, arch, phase, single_step, breakpoints, cpu, pcCell, pid,
                   brk, brkBy, icount, dbg>>

\* Mutant: the callback returns without revoking the pointer.
ReturnWithoutUnsetCpu ==
    /\ emu.at = "ei_unset"
    /\ emu' = EmuIdle
    /\ UNCHANGED <<mon, ilVars, arch, phase, single_step, breakpoints, cpu, pcCell, pid,
                   brk, brkBy, cont, icount, dbg>>

\* STATE.unset_cpu() (lib.rs:96) and return
EveryInstructionUnsetCpu ==
    /\ emu.at = "ei_unset"
    /\ cpu' = NullCpu
    /\ emu' = EmuIdle
    /\ UNCHANGED <<mon, ilVars, arch, phase, single_step, breakpoints, pcCell, pid, brk,
                   brkBy, cont, icount, dbg>>

EmulationStep(limit) ==
    \/ \E on_start \in BOOLEAN : PluginInit(on_start, limit)
    \/ OnShutdown
    \/ \E p \in Pids : OnProcessEnd(p)
    \/ \E name \in ProcNames, p \in Pids : OnProcessStart(name, p, limit)
    \/ \E pc \in PCs : EveryInstructionEnter(pc)
    \/ EveryInstructionCheckBreakpoint
    \/ EveryInstructionStopStepping
    \/ EveryInstructionSetCpu
    \/ EveryInstructionSetPc
    \/ EveryInstructionSignalBreak
    \/ EveryInstructionWaitCont
    \/ EveryInstructionUnsetCpu

(***************************************************************************)
(* panda_target.rs: the target operations GdbStub::run invokes on an RSP   *)
(* server thread, one packet at a time.                                    *)
(***************************************************************************)
DbgSet(t, r) == [dbg EXCEPT ![t] = r]
DbgAt(t, pos) == [dbg EXCEPT ![t].at = pos]

\* Mutant: the two Break arms of resume exchanged.
StopReasonArmsSwapped(action, payload) ==
    IF payload = "Exit" THEN "Exited"
    ELSE IF action = "Step" THEN "SwBreak" ELSE "DoneStep"

\* resume: the stop reason for the awaited payload (panda_target.rs:71-84)
StopReason(action, payload) ==
    IF payload = "Exit" THEN "Exited"
    ELSE IF action = "Step" THEN "DoneStep" ELSE "SwBreak"

\* resume(Step): STATE.start_single_stepping() (panda_target.rs:68)
ResumeStartStepping(t) ==
    /\ dbg[t].at = "idle"
    /\ single_step' = TRUE
    /\ dbg' = [dbg EXCEPT ![t].at = "res_cont", ![t].act = "Step"]
    /\ UNCHANGED <<mon, ilVars, arch, phase, breakpoints, cpu, pcCell, pid, brk, brkBy,
                   cont, icount, emu>>

\* resume: STATE.cont.signal(()) (panda_target.rs:69 for Step, :78 for Continue)
ResumeSignalCont(t, action) ==
    /\ \/ action = "Step" /\ dbg[t].at = "res_cont"
       \/ action = "Continue" /\ dbg[t].at = "idle"
    /\ cont' = SignalStore(cont, "unit")
    /\ dbg' = [dbg EXCEPT ![t].at = "res_wait", ![t].act = action,
                          ![t].contAt = icount]
    /\ UNCHANGED <<mon, ilVars, arch, phase, single_step, breakpoints, cpu, pcCell, pid,
                   brk, brkBy, icount, emu>>

\* resume: STATE.brk.wait_for() and the match on it (panda_target.rs:71-84)
ResumeWaitBrk(t) ==
    /\ dbg[t].at = "res_wait"
    /\ SignalPending(brk)
    /\ brk' = SignalReset(brk)
    /\ brkBy' = 0
    /\ dbg' = DbgSet(t, [IdleThread EXCEPT !.at = "res_ret",
                                          !.res = StopReason(dbg[t].act, brk)])
    /\ UNCHANGED <<mon, ilVars, arch, phase, single_step, breakpoints, cpu, pcCell, pid,
                   cont, icount, emu>>

\* GdbStub::run after resume returned: the server reports the stop reason and
\* serves the next packet, or ends when the target exited (lib.rs:37-40,74-77).
ResumeReturn(t) ==
    /\ dbg[t].at = "res_ret"
    /\ dbg' = DbgSet(t, IF dbg[t].res = "Exited"
                        THEN [NoThread EXCEPT !.at = "done"]
                        ELSE IdleThread)
    /\ UNCHANGED <<mon, ilVars, arch, phase, single_step, breakpoints, cpu, pcCell, pid,
                   brk, brkBy, cont, icount, emu>>

\* read_registers, write_registers, read_addrs or write_addrs is called: each
\* begins with wait_for_cpu, and which of them it is shows only in its body.
IoCall(t) ==
    /\ dbg[t].at = "idle"
    /\ dbg' = [dbg EXCEPT ![t].at = "io_wait",
                          ![t].nullAtCall = (cpu = NullCpu)]
    /\ UNCHANGED <<mon, ilVars, arch, phase, single_step, breakpoints, cpu, pcCell, pid,
                   brk, brkBy, cont, icount, emu>>

\* let cpu = STATE.wait_for_cpu() (panda_target.rs:95,201,253,268)
WaitForCpu(t) ==
    /\ dbg[t].at = "io_wait"
    /\ CpuPublished(cpu)
    /\ dbg' = [dbg EXCEPT ![t].at = "io_access", ![t].held = cpu]
    /\ UNCHANGED <<mon, ilVars, arch, phase, single_step, breakpoints, cpu, pcCell, pid,
                   brk, brkBy, cont, icount, emu>>

\* read_registers: the register bank is read through the held pointer; the PC
\* reported is STATE.get_pc() on every architecture but ppc, whose block is
\* empty (panda_target.rs:97-194).
\* the PC read_registers stores into the register bank: STATE.get_pc(), or
\* nothing on ppc (panda_target.rs:117,155,171,177-179,187)
ReadRegistersPc(a, cell) == IF a = "ppc" THEN << >> ELSE <<cell>>

ReadRegisters(t) ==
    /\ dbg[t].at = "io_access"
    /\ dbg' = DbgSet(t, IdleThread)
    /\ UNCHANGED <<mon, ilVars, arch, phase, single_step, breakpoints, cpu, pcCell, pid,
                   brk, brkBy, cont, icount, emu>>

\* write_registers with PC value x: the bank is written through the held
\* pointer; only the i386 block calls STATE.set_pc (panda_target.rs:203-245).
WriteRegisters(t, x) ==
    /\ dbg[t].at = "io_access"
    /\ pcCell' = IF arch = "i386" THEN x ELSE pcCell
    /\ dbg' = DbgSet(t, IdleThread)
    /\ UNCHANGED <<mon, ilVars, arch, phase, single_step, breakpoints, cpu, pid, brk, brkBy,
                   cont, icount, emu>>

\* Mutant: a failed guest read is reported as success.
ReadAddrsAlwaysOk(readable) == "Ok"

\* read_addrs: Ok(()) when try_mem_read gave the bytes, else
\* Err(TargetError::NonFatal) (panda_target.rs:255-260)
ReadAddrsResult(readable) == IF readable THEN "Ok" ELSE "NonFatal"

\* write_addrs: mem_write's result is dropped, Ok(()) (panda_target.rs:270-272)
WriteAddrsResult(written) == "Ok"

\* read_addrs: cpu.try_mem_read succeeds or not (panda_target.rs:255-260)
ReadAddrs(t, readable) ==
    /\ dbg[t].at = "io_access"
    /\ dbg' = DbgSet(t, IdleThread)
    /\ UNCHANGED <<mon, ilVars, arch, phase, single_step, breakpoints, cpu, pcCell, pid,
                   brk, brkBy, cont, icount, emu>>

\* write_addrs: cpu.mem_write, result ignored (panda_target.rs:270-272)
WriteAddrs(t) ==
    /\ dbg[t].at = "io_access"
    /\ dbg' = DbgSet(t, IdleThread)
    /\ UNCHANGED <<mon, ilVars, arch, phase, single_step, breakpoints, cpu, pcCell, pid,
                   brk, brkBy, cont, icount, emu>>

\* STATE.add_breakpoint / STATE.remove_breakpoint: the set after the call and
\* the value returned, "whether the set changed" (HashSet insert / remove).
add_breakpoint(set, addr) == [set |-> set \cup {addr}, ret |-> addr \notin set]
remove_breakpoint(set, addr) == [set |-> set \ {addr}, ret |-> addr \in set]

\* Mutant: adding an address that is already a breakpoint removes it.
AddBreakpointToggles(t, addr) ==
    /\ dbg[t].at = "idle"
    /\ breakpoints' = IF addr \in breakpoints THEN breakpoints \ {addr}
                      ELSE breakpoints \cup {addr}
    /\ UNCHANGED <<mon, ilVars, arch, phase, single_step, cpu, pcCell, pid, brk, brkBy,
                   cont, icount, emu, dbg>>

\* add_sw_breakpoint (panda_target.rs:283-289)
AddBreakpoint(t, addr) ==
    /\ dbg[t].at = "idle"
    /\ breakpoints' = add_breakpoint(breakpoints, addr).set
    /\ UNCHANGED <<mon, ilVars, arch, phase, single_step, cpu, pcCell, pid, brk, brkBy,
                   cont, icount, emu, dbg>>

\* remove_sw_breakpoint (panda_target.rs:291-297)
RemoveBreakpoint(t, addr) ==
    /\ dbg[t].at = "idle"
    /\ breakpoints' = remove_breakpoint(breakpoints, addr).set
    /\ UNCHANGED <<mon, ilVars, arch, phase, single_step, cpu, pcCell, pid, brk, brkBy,
                   cont, icount, emu, dbg>>

DebugStep(t) ==
    \/ ResumeStartStepping(t)
    \/ \E action \in {"Step", "Continue"} : ResumeSignalCont(t, action)
    \/ ResumeWaitBrk(t)
    \/ ResumeReturn(t)
    \/ IoCall(t)
    \/ WaitForCpu(t)
    \/ ReadRegisters(t)
    \/ \E x \in PCs : WriteRegisters(t, x)
    \/ \E readable \in BOOLEAN : ReadAddrs(t, readable)
    \/ WriteAddrs(t)
    \/ \E addr \in BreakAddrs : AddBreakpoint(t, addr)
    \/ \E addr \in BreakAddrs : RemoveBreakpoint(t, addr)

Next ==
    \/ EmulationStep(MaxThreads)
    \/ \E t \in Threads : DebugStep(t)

Spec == Init /\ [][Next]_vars

\* The same program in runs that spawn up to MoreThreads further threads.
NextMoreThreads ==
    \/ EmulationStep(MaxThreads + MoreThreads)
    \/ \E t \in Threads : DebugStep(t)

SpecMoreThreads == Init /\ [][NextMoreThreads]_vars

(***************************************************************************)
(* The debug bridge with the host's translation of guest instructions:     *)
(* translate_instr (lib.rs:100-104) is asked once, when an instruction is  *)
(* translated, whether insn_exec is to be delivered for it; the host keeps *)
(* the translation and runs it from then on.                               *)
(***************************************************************************)
\* the host's translations: per guest address "none", "instrumented" or
\* "plain"; unseen collects the breakpoints the guest ran through without
\* the instruction callback
NoTranslations ==
    [at |-> "tb", cache |-> [pc \in PCs |-> "none"], unseen |-> {}]

InitTranslate ==
    /\ arch \in Archs
    /\ GdbLoaded
    /\ IlTraceLoaded
    /\ asm = NoAssembly
    /\ block = NoTranslations

\* #[panda::insn_translate] translate_instr (lib.rs:100-104), called by the
\* host when it translates the instruction at pc
TranslateInstr(pc) ==
    /\ HostRunning
    /\ block.cache[pc] = "none"
    /\ block' = [block EXCEPT !.cache[pc] =
                    IF single_step \/ pc \in breakpoints
                    THEN "instrumented" ELSE "plain"]
    /\ UNCHANGED <<arch, gdbVars, BB_NUM, BBQ_IN, BBQ_OUT, workers, il,
                   captured, bbs_final, asm>>

\* the guest executes an instruction whose translation is instrumented: the
\* host delivers insn_exec (lib.rs:82-83)
ExecuteInstrumented(pc) ==
    /\ block.cache[pc] = "instrumented"
    /\ EveryInstructionEnter(pc)

\* the guest executes an instruction for which translate_instr returned
\* false: no callback of the plugin runs
ExecutePlain(pc) ==
    /\ HostRunning
    /\ block.cache[pc] = "plain"
    /\ block' = [block EXCEPT !.unseen =
                    IF pc \in breakpoints THEN @ \cup {pc} ELSE @]
    /\ UNCHANGED <<arch, gdbVars, BB_NUM, BBQ_IN, BBQ_OUT, workers, il,
                   captured, bbs_final, asm>>

NextTranslate ==
    \/ \E on_start \in BOOLEAN : PluginInit(on_start, MaxThreads)
    \/ OnShutdown
    \/ \E p \in Pids : OnProcessEnd(p)
    \/ \E name \in ProcNames, p \in Pids : OnProcessStart(name, p, MaxThreads)
    \/ \E pc \in PCs : TranslateInstr(pc)
    \/ \E pc \in PCs : ExecuteInstrumented(pc)
    \/ \E pc \in PCs : ExecutePlain(pc)
    \/ EveryInstructionCheckBreakpoint
    \/ EveryInstructionStopStepping
    \/ EveryInstructionSetCpu
    \/ EveryInstructionSetPc
    \/ EveryInstructionSignalBreak
    \/ EveryInstructionWaitCont
    \/ EveryInstructionUnsetCpu
    \/ \E t \in Threads : DebugStep(t)

SpecTranslate == InitTranslate /\ [][NextTranslate]_vars

(***************************************************************************)
(* panda-il-trace/src/lib.rs: the capture pipeline. A block is known here  *)
(* by its sequence number and by whether its lift succeeded.               *)
(***************************************************************************)
\* ARGS.proc_name: the process to trace
proc_name == "target"
\* panda_sys::TB_EXIT_IDX1 and the exit codes the host passes
TB_EXIT_IDX1 == 1
ExitCodes == {TB_EXIT_IDX1, TB_EXIT_IDX1 + 1}

\* x86 builds find calls and returns by the stack pointer, the others by the
\* link register (fil/bb.rs:181-229)
StackArchs == {"x86_64", "i386"}
LinkRegArchs == {"ppc", "mips"}

\* BasicBlock::new_zero_copy (fil/bb.rs:66-97): translation and branch
\* start as None
NewBlock(seq) == [seq_num |-> seq, translation |-> "None", branch |-> "None"]

\* what BasicBlock::process can do to a block (fil/bb.rs:140-165): the lift
\* succeeds, and find_branch finds a branch or none, or the lift fails; on a link-register build find_branch panics on a branch
\* whose previous IR instruction both writes and reads the return-address
\* register (fil/bb.rs:209-232).
ProcessOutcomes(a) ==
    {"lifted_branch", "lifted", "lift_failed"}
       \cup (IF a \in LinkRegArchs THEN {"assert_failed"} ELSE {})

\* WORKER_POOL (lib.rs:39-44): num_threads(num_cpus::get())
WorkerPoolThreads(h) == h

\* Mutant: no hardware thread is left to the producer.
WorkerLoopPerCpu(h) == h

\* init (lib.rs:126-132): the number of worker loops for h hardware threads
WorkerLoops(h) == IF h > 1 THEN h - 1 ELSE 1

IdleWorker == [at |-> "pop", bb |-> << >>]
Workers == 1..WorkerLoops(MaxCpus)
IlAlive == il.at \notin {"loaded", "aborted", "exited"}

RECURSIVE SortBySeqNum(_)
\* sort_unstable_by_key(|bb| bb.seq_num()) (lib.rs:86, fil/bbl.rs:34)
SortBySeqNum(list) ==
    IF list = << >> THEN << >>
    ELSE LET i == CHOOSE k \in 1..Len(list) :
                     \A j \in 1..Len(list) : list[k].seq_num <= list[j].seq_num
         IN  <<list[i]>> \o SortBySeqNum([k \in 1..(Len(list) - 1) |->
                                IF k < i THEN list[k] ELSE list[k + 1]])

RECURSIVE trans_err_cnt(_)
\* BasicBlockList::trans_err_cnt (fil/bbl.rs:113-116): the blocks that are
\* not is_lifted(), i.e. whose translation is None (fil/bb.rs:120-122)
trans_err_cnt(list) ==
    IF list = << >> THEN 0
    ELSE (IF Head(list).translation = "Some" THEN 0 ELSE 1)
            + trans_err_cnt(Tail(list))

\* #[panda::init] init (lib.rs:122-149)
IlTraceInit(h) ==
    /\ il.at = "loaded"
    /\ workers' = [w \in 1..WorkerLoops(h) |-> IdleWorker]
    /\ il' = [at |-> "running", bb |-> << >>, cpu_total |-> h,
               pool |-> WorkerPoolThreads(h)]
    /\ UNCHANGED <<block, arch, gdbVars, BB_NUM, BBQ_IN, BBQ_OUT, captured, bbs_final,
                   asm>>

\* Mutant: the outcome of the guest read is not looked at.
AcceptsUnreadable(in_kernel, exit_code, trace_lib, in_so, name, readable) ==
    /\ ~in_kernel
    /\ ~(exit_code > TB_EXIT_IDX1)
    /\ ~(~trace_lib /\ in_so)
    /\ name = proc_name

\* Mutant: the process name is not compared.
AcceptsAnyProcess(in_kernel, exit_code, trace_lib, in_so, name, readable) ==
    /\ ~in_kernel
    /\ ~(exit_code > TB_EXIT_IDX1)
    /\ ~(~trace_lib /\ in_so)
    /\ readable

\* the filters and the guest read of every_basic_block (lib.rs:181-199)
Accepts(in_kernel, exit_code, trace_lib, in_so, name, readable) ==
    /\ ~in_kernel
    /\ ~(exit_code > TB_EXIT_IDX1)
    /\ ~(~trace_lib /\ in_so)
    /\ name = proc_name
    /\ readable

\* Mutant: the sequence number is taken before the guest read is tried.
FetchAddBeforeRead(in_kernel, exit_code, trace_lib, in_so, name, readable) ==
    /\ il.at = "running"
    /\ BB_NUM < MaxBlocks
    /\ IF Accepts(in_kernel, exit_code, trace_lib, in_so, name, TRUE)
       THEN /\ BB_NUM' = BB_NUM + 1
            /\ IF readable
               THEN /\ il' = [il EXCEPT !.at = "cb_push", !.bb = NewBlock(BB_NUM)]
                    /\ captured' = Append(captured, BB_NUM)
               ELSE UNCHANGED <<il, captured>>
       ELSE UNCHANGED <<BB_NUM, il, captured>>
    /\ UNCHANGED <<block, arch, gdbVars, BBQ_IN, BBQ_OUT, workers, bbs_final, asm>>

\* #[panda::after_block_exec] every_basic_block up to BB_NUM.fetch_add and
\* BasicBlock::new_zero_copy (lib.rs:179-204)
EveryBasicBlock(in_kernel, exit_code, trace_lib, in_so, name, readable) ==
    /\ il.at = "running"
    /\ BB_NUM < MaxBlocks
    /\ IF Accepts(in_kernel, exit_code, trace_lib, in_so, name, readable)
       THEN /\ BB_NUM' = BB_NUM + 1
            /\ il' = [il EXCEPT !.at = "cb_push", !.bb = NewBlock(BB_NUM)]
            /\ captured' = Append(captured, BB_NUM)
       ELSE UNCHANGED <<BB_NUM, il, captured>>
    /\ UNCHANGED <<block, arch, gdbVars, BBQ_IN, BBQ_OUT, workers, bbs_final, asm>>

\* BBQ_IN.push(bb) (lib.rs:205)
EveryBasicBlockPush ==
    /\ il.at = "cb_push"
    /\ BBQ_IN' = Append(BBQ_IN, il.bb)
    /\ il' = IlTo("running")
    /\ UNCHANGED <<block, arch, gdbVars, BB_NUM, BBQ_OUT, workers, captured,
                   bbs_final, asm>>

\* Mutant: the worker reads the head of BBQ_IN without removing it.
WorkerPeek(w) ==
    /\ IlAlive
    /\ w \in DOMAIN workers
    /\ workers[w].at = "pop"
    /\ BBQ_IN # << >>
    /\ workers' = [workers EXCEPT ![w] = [at |-> "process", bb |-> Head(BBQ_IN)]]
    /\ UNCHANGED <<block, arch, gdbVars, BB_NUM, BBQ_IN, BBQ_OUT, il, captured,
                   bbs_final, asm>>

\* worker loop: BBQ_IN.pop() gave Some(bb) (lib.rs:136); a None leaves the
\* loop where it is.
WorkerPop(w) ==
    /\ IlAlive
    /\ w \in DOMAIN workers
    /\ workers[w].at = "pop"
    /\ BBQ_IN # << >>
    /\ workers' = [workers EXCEPT ![w] = [at |-> "process", bb |-> Head(BBQ_IN)]]
    /\ BBQ_IN' = Tail(BBQ_IN)
    /\ UNCHANGED <<block, arch, gdbVars, BB_NUM, BBQ_OUT, il, captured, bbs_final,
                   asm>>

\* worker loop: bb.process() (lib.rs:137). A panic in a closure given to
\* ThreadPool::spawn of a pool built without a panic handler aborts the
\* process (lib.rs:40-43,135).
WorkerProcess(w, outcome) ==
    /\ IlAlive
    /\ w \in DOMAIN workers
    /\ workers[w].at = "process"
    /\ IF outcome = "assert_failed"
       THEN /\ il' = IlTo("aborted")
            /\ UNCHANGED workers
       ELSE /\ workers' = [workers EXCEPT
                 ![w].at = "push",
                 ![w].bb.translation =
                     IF outcome = "lift_failed" THEN "None" ELSE "Some",
                 ![w].bb.branch =
                     IF outcome = "lifted_branch" THEN "Some" ELSE "None"]
            /\ UNCHANGED il
    /\ UNCHANGED <<block, arch, gdbVars, BB_NUM, BBQ_IN, BBQ_OUT, captured,
                   bbs_final, asm>>

\* Mutant: a worker drops the block whose lift failed.
WorkerPushLiftedOnly(w) ==
    /\ IlAlive
    /\ w \in DOMAIN workers
    /\ workers[w].at = "push"
    /\ BBQ_OUT' = IF workers[w].bb.translation = "None" THEN BBQ_OUT
                  ELSE Append(BBQ_OUT, workers[w].bb)
    /\ workers' = [workers EXCEPT ![w] = IdleWorker]
    /\ UNCHANGED <<block, arch, gdbVars, BB_NUM, BBQ_IN, il, captured,
                   bbs_final, asm>>

\* worker loop: BBQ_OUT.push(bb) (lib.rs:138)
WorkerPush(w) ==
    /\ IlAlive
    /\ w \in DOMAIN workers
    /\ workers[w].at = "push"
    /\ BBQ_OUT' = Append(BBQ_OUT, workers[w].bb)
    /\ workers' = [workers EXCEPT ![w] = IdleWorker]
    /\ UNCHANGED <<block, arch, gdbVars, BB_NUM, BBQ_IN, il, captured, bbs_final,
                   asm>>

WorkerStep(w) ==
    \/ WorkerPop(w)
    \/ \E outcome \in ProcessOutcomes(arch) : WorkerProcess(w, outcome)
    \/ WorkerPush(w)

\* Mutant: uninit goes on to finalize_bbs without waiting for the lifts.
UninitWithoutDrain ==
    /\ il.at \in {"running", "uninit_sleep"}
    /\ il' = IlTo("finalize")
    /\ UNCHANGED <<block, arch, gdbVars, BB_NUM, BBQ_IN, BBQ_OUT, workers, captured,
                   bbs_final, asm>>

\* #[panda::uninit] uninit: one test of the wait loop (lib.rs:154-157); the
\* host calls it on the emulation thread, between callbacks.
UninitPoll ==
    /\ il.at \in {"running", "uninit_sleep"}
    /\ il' = IF Len(BBQ_OUT) # BB_NUM THEN IlTo("uninit_sleep")
             ELSE IlTo("finalize")
    /\ UNCHANGED <<block, arch, gdbVars, BB_NUM, BBQ_IN, BBQ_OUT, workers, captured,
                   bbs_final, asm>>

\* finalize_bbs (lib.rs:78-118): BBQ_OUT is drained into a vector that is
\* sorted by seq_num and handed to the assembler; what it does to the
\* blocks' branches is FinalizeBbsAssemble in the assembler section.
FinalizeBbs ==
    /\ il.at = "finalize"
    /\ bbs_final' = SortBySeqNum(BBQ_OUT)
    /\ BBQ_OUT' = << >>
    /\ il' = IlTo("assemble")
    /\ UNCHANGED <<block, arch, gdbVars, BB_NUM, BBQ_IN, workers, captured, asm>>

\* uninit after finalize_bbs: the trace is written and the process exits
\* (lib.rs:160-175)
UninitExit ==
    /\ il.at = "assemble"
    /\ il' = IlTo("exited")
    /\ UNCHANGED <<block, arch, gdbVars, BB_NUM, BBQ_IN, BBQ_OUT, workers, captured,
                   bbs_final, asm>>

IlEmulationStep ==
    \/ \E h \in 1..MaxCpus : IlTraceInit(h)
    \/ \E in_kernel, trace_lib, in_so, readable \in BOOLEAN,
          exit_code \in ExitCodes, name \in ProcNames :
          EveryBasicBlock(in_kernel, exit_code, trace_lib, in_so, name,
                          readable)
    \/ EveryBasicBlockPush
    \/ UninitPoll
    \/ FinalizeBbs
    \/ UninitExit

NextCapture ==
    \/ IlEmulationStep
    \/ \E w \in Workers : WorkerStep(w)

SpecCapture == Init /\ [][NextCapture]_vars

\* The scheduler is fair to every worker loop and to the emulation thread
\* once it is inside uninit.
SpecCaptureFair ==
    /\ SpecCapture
    /\ \A w \in Workers : WF_vars(WorkerStep(w))
    /\ WF_vars(UninitPoll) /\ WF_vars(FinalizeBbs) /\ WF_vars(UninitExit)

(***************************************************************************)
(* il_trace assembler: the branch resolution of finalize_bbs               *)
(* (lib.rs:88-115) and BasicBlockList::from (fil/bbl.rs:19-111), applied   *)
(* to vectors of blocks as BasicBlock::process leaves them.                *)
(***************************************************************************)
\* longest block vector handed to the assembler
MaxVec == 3
\* address spaces and start addresses of the blocks of a vector
Asids == {1, MaxPid}
BlockPCs == {0, MaxPC}
\* il.rs:15
RET_MARKER == "<RETURN>"
\* what find_branch can leave in a block (fil/bb.rs:160-300); "None" is a
\* block without a branch
DetectorKinds == {"None", "DirectCall", "DirectJump", "CallSentinel",
                  "IndirectJumpSentinel", "ReturnSentinel",
                  "DirectJumpSentinel"}
Sentinels == {"CallSentinel", "IndirectJumpSentinel", "ReturnSentinel",
              "DirectJumpSentinel"}

\* the Option<Branch> find_branch returns for a block at pc with number seq;
\* a direct jump is recorded untaken (fil/bb.rs:244-250)
DetectedBranch(kind, pc, seq) ==
    CASE kind = "None" -> [kind |-> "None"]
      [] kind = "DirectCall" ->
            [kind |-> "DirectCall", site_pc |-> pc, dst_pc |-> MaxPC]
      [] kind = "DirectJump" ->
            [kind |-> "DirectJump", site_pc |-> pc, dst_pc |-> 0,
             taken |-> FALSE]
      [] kind = "CallSentinel" ->
            [kind |-> "CallSentinel", site_pc |-> pc, seq_num |-> seq,
             reg |-> "rax"]
      [] kind = "IndirectJumpSentinel" ->
            [kind |-> "IndirectJumpSentinel", site_pc |-> pc,
             seq_num |-> seq, reg |-> "rax"]
      [] kind = "ReturnSentinel" ->
            [kind |-> "ReturnSentinel", site_pc |-> pc, seq_num |-> seq]
      [] kind = "DirectJumpSentinel" ->
            [kind |-> "DirectJumpSentinel", site_pc |-> pc, seq_num |-> seq]

\* BasicBlock after process() (fil/bb.rs:18-40,160-165)
DetectedBlock(seq, c) ==
    [seq_num |-> seq, pc |-> c.pc, asid |-> c.asid, pid |-> c.asid,
     ppid |-> 0, branch |-> DetectedBranch(c.kind, c.pc, seq)]

\* what a popped block can be: its address space, its start address and the
\* branch find_branch left in it
Detected == [asid : Asids, pc : BlockPCs, kind : DetectorKinds]

\* the vector is empty; up tells whether the workers finish the blocks in
\* capture order or in its reverse
InitAssemble ==
    /\ arch = "x86_64"
    /\ GdbLoaded
    /\ IlTraceLoaded
    /\ \E up \in BOOLEAN :
          asm = [stage |-> "draining", by |-> "-", up |-> up,
                 input |-> << >>, list |-> << >>, lisp |-> << >>,
                 json |-> << >>]
    /\ block = NoBlock

\* while let Some(bb) = BBQ_OUT.pop() { bbs_final.push(bb) } (lib.rs:80-83),
\* one block: the blocks of a vector are numbered 0..n-1
DrainOne(c) ==
    /\ asm.stage = "draining"
    /\ Len(asm.list) < MaxVec
    /\ LET v == IF asm.up
                THEN Append(asm.list, DetectedBlock(Len(asm.list), c))
                ELSE <<DetectedBlock(Len(asm.list), c)>> \o asm.list
       IN  asm' = [asm EXCEPT !.input = v, !.list = v]
    /\ UNCHANGED <<block, arch, gdbVars, BB_NUM, BBQ_IN, BBQ_OUT, workers, il,
                   captured, bbs_final>>

ResolveBranchAlwaysTaken(branch, actual_dst_pc) ==
    CASE branch.kind = "CallSentinel" ->
            [kind |-> "IndirectCall", site_pc |-> branch.site_pc,
             dst_pc |-> actual_dst_pc, reg_used |-> branch.reg]
      [] branch.kind = "ReturnSentinel" ->
            [kind |-> "Return", site_pc |-> branch.site_pc,
             dst_pc |-> actual_dst_pc]
      [] branch.kind = "IndirectJumpSentinel" ->
            [kind |-> "IndirectJump", site_pc |-> branch.site_pc,
             dst_pc |-> actual_dst_pc, reg_used |-> branch.reg]
      [] branch.kind = "DirectJumpSentinel" ->
            [kind |-> "DirectJump", site_pc |-> branch.site_pc,
             dst_pc |-> actual_dst_pc, taken |-> TRUE]
      [] branch.kind = "DirectJump" ->
            [kind |-> "DirectJump", site_pc |-> branch.site_pc,
             dst_pc |-> branch.dst_pc, taken |-> TRUE]
      [] OTHER -> branch
\* one iteration of the resolution loop of BasicBlockList::from
\* (fil/bbl.rs:46-97): the branch of bbv[idx] given the pc of bbv[idx + 1]
ResolveBranch(branch, actual_dst_pc) ==
    CASE branch.kind = "CallSentinel" ->
            [kind |-> "IndirectCall", site_pc |-> branch.site_pc,
             dst_pc |-> actual_dst_pc, reg_used |-> branch.reg]
      [] branch.kind = "ReturnSentinel" ->
            [kind |-> "Return", site_pc |-> branch.site_pc,
             dst_pc |-> actual_dst_pc]
      [] branch.kind = "IndirectJumpSentinel" ->
            [kind |-> "IndirectJump", site_pc |-> branch.site_pc,
             dst_pc |-> actual_dst_pc, reg_used |-> branch.reg]
      [] branch.kind = "DirectJumpSentinel" ->
            [kind |-> "DirectJump", site_pc |-> branch.site_pc,
             dst_pc |-> actual_dst_pc, taken |-> TRUE]
      [] branch.kind = "DirectJump" ->
            [kind |-> "DirectJump", site_pc |-> branch.site_pc,
             dst_pc |-> branch.dst_pc,
             taken |-> (actual_dst_pc = branch.dst_pc)]
      [] OTHER -> branch

\* the loop over one partition (fil/bbl.rs:37-98): every block but the last
\* is resolved against its successor
ResolvePartition(bbv) ==
    [idx \in 1..Len(bbv) |->
        IF idx + 1 > Len(bbv) THEN bbv[idx]
        ELSE [bbv[idx] EXCEPT
                 !.branch = ResolveBranch(@, bbv[idx + 1].pc)]]

AssemblePartitionUnsorted(bbv) == ResolvePartition(bbv)
\* fil/bbl.rs:31-98 for one value of asid_map
AssemblePartition(bbv) == ResolvePartition(SortBySeqNum(bbv))

RECURSIVE FlattenByAsid(_, _)
\* asid_map.values().flat_map(..) (fil/bbl.rs:101-104): a BTreeMap yields its
\* values in ascending key order
FlattenByAsid(list, asids) ==
    IF asids = {} THEN << >>
    ELSE LET a == CHOOSE x \in asids : \A y \in asids : x <= y
         IN  AssemblePartition(SelectSeq(list, LAMBDA bb : bb.asid = a))
                \o FlattenByAsid(list, asids \ {a})

\* BasicBlockList::from (fil/bbl.rs:19-111)
BasicBlockListFrom(list) ==
    FlattenByAsid(list, {list[k].asid : k \in 1..Len(list)})

\* the loop of finalize_bbs over chunks_exact_mut(2) (lib.rs:88-115): the
\* first block of each pair is resolved against the second; a trailing odd
\* block is in no chunk
PrePassBranch(branch, dst_pc) ==
    CASE branch.kind = "CallSentinel" ->
            IF branch.reg = RET_MARKER
            THEN [kind |-> "Return", site_pc |-> branch.site_pc,
                  dst_pc |-> dst_pc]
            ELSE [kind |-> "IndirectCall", site_pc |-> branch.site_pc,
                  dst_pc |-> dst_pc, reg_used |-> branch.reg]
      [] branch.kind = "IndirectJumpSentinel" ->
            [kind |-> "IndirectJump", site_pc |-> branch.site_pc,
             dst_pc |-> dst_pc, reg_used |-> branch.reg]
      [] OTHER -> branch

FirstOfChunk(list, k) == k % 2 = 1 /\ k + 1 <= Len(list)

PrePass(list) ==
    [k \in 1..Len(list) |->
        IF FirstOfChunk(list, k)
        THEN [list[k] EXCEPT !.branch = PrePassBranch(@, list[k + 1].pc)]
        ELSE list[k]]

\* the assert!(next_seq == seq_num + 1) of lib.rs:96,105
PrePassAsserts(list) ==
    \A k \in 1..Len(list) :
        (FirstOfChunk(list, k)
            /\ list[k].branch.kind \in {"CallSentinel", "IndirectJumpSentinel"})
        => list[k + 1].seq_num = list[k].branch.seq_num + 1

\* a caller hands the vector to BasicBlockList::from (fil/mod.rs:271-306)
AssembleFrom ==
    /\ asm.stage = "draining"
    /\ asm' = [asm EXCEPT !.stage = "assembled", !.by = "from",
                          !.list = BasicBlockListFrom(asm.list)]
    /\ UNCHANGED <<block, arch, gdbVars, BB_NUM, BBQ_IN, BBQ_OUT, workers, il,
                   captured, bbs_final>>

\* the rest of finalize_bbs (lib.rs:85-117): sort, resolve the
\* pairs, then BasicBlockList::from
FinalizeBbsAssemble ==
    /\ asm.stage = "draining"
    /\ LET sorted == SortBySeqNum(asm.list)
       IN  asm' = IF PrePassAsserts(sorted)
                  THEN [asm EXCEPT !.stage = "assembled",
                                   !.by = "finalize_bbs",
                                   !.list = BasicBlockListFrom(PrePass(sorted))]
                  ELSE [asm EXCEPT !.stage = "panicked",
                                   !.by = "finalize_bbs"]
    /\ UNCHANGED <<block, arch, gdbVars, BB_NUM, BBQ_IN, BBQ_OUT, workers, il,
                   captured, bbs_final>>

NextAssemble ==
    \/ \E c \in Detected : DrainOne(c)
    \/ AssembleFrom
    \/ FinalizeBbsAssemble

SpecAssemble == InitAssemble /\ [][NextAssemble]_vars

\* to_branch_json (fil/bbl.rs:134-158): the blocks that have a branch
HasBranch(bb) == bb.branch.kind # "None"
bbs_with_branch(list) == SelectSeq(list, HasBranch)

\* to_branch_json: the list it serializes is Self::from(bbs_with_branch)
\* (fil/bbl.rs:146)
ToBranchJson ==
    /\ asm.stage = "assembled"
    /\ asm' = [asm EXCEPT !.stage = "branch_json",
                          !.json = BasicBlockListFrom(bbs_with_branch(asm.list))]
    /\ UNCHANGED <<block, arch, gdbVars, BB_NUM, BBQ_IN, BBQ_OUT, workers, il,
                   captured, bbs_final>>

NextBranchJson ==
    \/ NextAssemble
    \/ ToBranchJson

\* the assembler, followed by the writing of the branch list
SpecBranchJson == InitAssemble /\ [][NextBranchJson]_vars

(***************************************************************************)
(* il_trace: one BasicBlock and the methods called on it (fil/bb.rs).      *)
(***************************************************************************)
\* most calls of lift() and process() made on one block
MaxCalls == 3

\* BasicBlock::new (fil/bb.rs:42-97): translation and branch start as None.
\* liftable tells whether the translator accepts the block's bytes and kind
\* what find_branch sees in the lifted code; lifts counts the calls of
\* translate_block, calls those of lift() and process(), and processed
\* tells whether process() has run.
NewBasicBlock(pc, liftable, kind) ==
    [at |-> "made", seq_num |-> 0, pc |-> pc, liftable |-> liftable,
     kind |-> kind, translation |-> "None", branch |-> [kind |-> "None"],
     lifts |-> 0, calls |-> 0, processed |-> FALSE]

InitBlock ==
    /\ arch = "x86_64"
    /\ GdbLoaded
    /\ IlTraceLoaded
    /\ asm = NoAssembly
    /\ \E pc \in BlockPCs, liftable \in BOOLEAN, kind \in DetectorKinds :
          block = NewBasicBlock(pc, liftable, kind)

\* BasicBlock::lift (fil/bb.rs:136-151): translate_block is called whenever
\* translation is None; only a success is stored
lift(b) ==
    IF b.translation = "None"
    THEN [b EXCEPT !.lifts = @ + 1,
                   !.translation = IF b.liftable THEN "Some" ELSE "None"]
    ELSE b

FindBranchWithoutLift(b) == DetectedBranch(b.kind, b.pc, b.seq_num)
\* BasicBlock::find_branch (fil/bb.rs:163-312): None without a translation
find_branch(b) ==
    IF b.translation = "Some"
    THEN DetectedBranch(b.kind, b.pc, b.seq_num)
    ELSE [kind |-> "None"]

\* BasicBlock::process (fil/bb.rs:156-159)
process(b) == [lift(b) EXCEPT !.branch = find_branch(lift(b))]

\* a caller invokes lift()
BlockLift ==
    /\ block.at = "made"
    /\ block.calls < MaxCalls
    /\ block' = [lift(block) EXCEPT !.calls = @ + 1]
    /\ UNCHANGED <<arch, gdbVars, BB_NUM, BBQ_IN, BBQ_OUT, workers, il,
                   captured, bbs_final, asm>>

\* a caller invokes process()
BlockProcess ==
    /\ block.at = "made"
    /\ block.calls < MaxCalls
    /\ block' = [process(block) EXCEPT !.calls = @ + 1, !.processed = TRUE]
    /\ UNCHANGED <<arch, gdbVars, BB_NUM, BBQ_IN, BBQ_OUT, workers, il,
                   captured, bbs_final, asm>>

\* the block is followed in its partition by a block at dst_pc and
\* BasicBlockList::from resolves it (fil/bbl.rs:44-97)
BlockResolve(dst_pc) ==
    /\ block.at = "made"
    /\ block.branch.kind # "None"
    /\ block' = [block EXCEPT !.branch = ResolveBranch(@, dst_pc)]
    /\ UNCHANGED <<arch, gdbVars, BB_NUM, BBQ_IN, BBQ_OUT, workers, il,
                   captured, bbs_final, asm>>

NextBlock ==
    \/ BlockLift
    \/ BlockProcess
    \/ \E dst_pc \in BlockPCs : BlockResolve(dst_pc)

SpecBlock == InitBlock /\ [][NextBlock]_vars

(***************************************************************************)
(* il_trace call-stack renderer (callstack.rs). A string is the sequence   *)
(* of its pieces: "(", ")" and the text of a branch.                       *)
(***************************************************************************)
\* the branches a resolved list can hold
ResolvedKinds == {"None", "DirectCall", "IndirectCall", "Return",
                  "DirectJump", "IndirectJump"}
Calls == {"DirectCall", "IndirectCall"}

\* the destination used by the serialization tests (fil/mod.rs:251)
DstPc == 4919

\* a block of a resolved list (fil/bb.rs:18-31)
ResolvedBlock(seq, kind) ==
    [seq_num |-> seq, pc |-> DstPc, asid |-> 1, pid |-> 1, ppid |-> 0,
     bytes |-> <<195>>, translation |-> "Some",
     branch |-> CASE kind = "None" -> [kind |-> "None"]
                  [] kind \in {"DirectCall", "Return"} ->
                        [kind |-> kind, site_pc |-> 0, dst_pc |-> DstPc]
                  [] kind \in {"IndirectCall", "IndirectJump"} ->
                        [kind |-> kind, site_pc |-> 0, dst_pc |-> DstPc,
                         reg_used |-> "rax"]
                  [] kind = "DirectJump" ->
                        [kind |-> kind, site_pc |-> 0, dst_pc |-> DstPc,
                         taken |-> TRUE]]

\* impl fmt::Display for Branch (fil/branch.rs:48-110): the variant name with
\* site and destination
Display(branch) == <<branch.kind, branch.site_pc, branch.dst_pc>>

RECURSIVE Unwind(_, _)
\* while let Some(brace) = ret_stack.pop() { lisp_str.push(brace) }
\* (callstack.rs:70-72)
Unwind(lisp_str, ret_stack) ==
    IF ret_stack = << >> THEN lisp_str
    ELSE Unwind(Append(lisp_str, ret_stack[Len(ret_stack)]),
                SubSeq(ret_stack, 1, Len(ret_stack) - 1))

RECURSIVE ToLispLoop(_, _, _, _)
\* the loop of to_lisp over bb_list.blocks().enumerate() (callstack.rs:35-65);
\* position k is idx + 1
ToLispLoop(list, k, lisp_str, ret_stack) ==
    IF k > Len(list) THEN Unwind(lisp_str, ret_stack)
    ELSE LET branch == list[k].branch
         IN  IF branch.kind \in Calls
             THEN IF k = 1
                  THEN ToLispLoop(list, k + 1,
                                  Append(lisp_str, Display(branch)), ret_stack)
                  ELSE ToLispLoop(list, k + 1,
                                  lisp_str \o <<"(", Display(branch)>>,
                                  Append(ret_stack, ")"))
             ELSE IF branch.kind = "Return" /\ ret_stack # << >>
             THEN ToLispLoop(list, k + 1,
                             Append(lisp_str, ret_stack[Len(ret_stack)]),
                             SubSeq(ret_stack, 1, Len(ret_stack) - 1))
             ELSE ToLispLoop(list, k + 1, lisp_str, ret_stack)

\* to_lisp (callstack.rs:28-75)
to_lisp(list) ==
    IF list = << >> THEN <<"(", ")">>
    ELSE ToLispLoop(list, 1, << >>, << >>)

RECURSIVE Decimal(_)
\* serde_json writes an integer as its decimal digits
Decimal(n) ==
    IF n < 10 THEN <<n>> ELSE Append(Decimal(n \div 10), n % 10)

\* #[derive(Serialize)] for Branch (fil/branch.rs:7-46): an object keyed by
\* the variant name that holds the variant's fields in declaration order
BranchJson(branch) ==
    CASE branch.kind = "None" -> <<"null">>
      [] branch.kind \in {"DirectCall", "Return"} ->
            <<branch.kind, <<<<"site_pc", Decimal(branch.site_pc)>>,
                             <<"dst_pc", Decimal(branch.dst_pc)>>>>>>
      [] branch.kind \in {"IndirectCall", "IndirectJump"} ->
            <<branch.kind, <<<<"site_pc", Decimal(branch.site_pc)>>,
                             <<"dst_pc", Decimal(branch.dst_pc)>>,
                             <<"reg_used", <<branch.reg_used>>>>>>>>
      [] branch.kind = "DirectJump" ->
            <<branch.kind, <<<<"site_pc", Decimal(branch.site_pc)>>,
                             <<"dst_pc", Decimal(branch.dst_pc)>>,
                             <<"taken", <<branch.taken>>>>>>>>

\* #[derive(Serialize)] for BasicBlock (fil/bb.rs:18-58): the fields without
\* #[serde(skip)], in declaration order
BlockJson(b) ==
    <<<<"seq_num", Decimal(b.seq_num)>>, <<"pc", Decimal(b.pc)>>,
      <<"asid", Decimal(b.asid)>>, <<"pid", Decimal(b.pid)>>,
      <<"ppid", Decimal(b.ppid)>>, <<"branch", BranchJson(b.branch)>>>>

\* serde_json::to_string of a BasicBlockList (fil/bbl.rs:8-12,147-155)
ListJson(list) == [k \in 1..Len(list) |-> BlockJson(list[k])]

InitCallstack ==
    /\ arch = "x86_64"
    /\ GdbLoaded
    /\ IlTraceLoaded
    /\ block = NoBlock
    /\ asm = [NoAssembly EXCEPT !.stage = "resolved"]

\* the resolved list that reaches the renderer, one block at a time
ListBlock(kind) ==
    /\ asm.stage = "resolved"
    /\ Len(asm.list) < MaxVec
    /\ asm' = [asm EXCEPT !.list = Append(@, ResolvedBlock(Len(@), kind))]
    /\ UNCHANGED <<block, arch, gdbVars, BB_NUM, BBQ_IN, BBQ_OUT, workers, il,
                   captured, bbs_final>>

\* fmt_callstack calls to_lisp (callstack.rs:16-19)
FmtCallstack ==
    /\ asm.stage = "resolved"
    /\ asm' = [asm EXCEPT !.stage = "rendered", !.lisp = to_lisp(asm.list)]
    /\ UNCHANGED <<block, arch, gdbVars, BB_NUM, BBQ_IN, BBQ_OUT, workers, il,
                   captured, bbs_final>>

\* the list is serialized (fil/bbl.rs:147-155, fil/mod.rs:303-308)
SerializeList ==
    /\ asm.stage = "resolved"
    /\ asm' = [asm EXCEPT !.stage = "serialized", !.json = ListJson(asm.list)]
    /\ UNCHANGED <<block, arch, gdbVars, BB_NUM, BBQ_IN, BBQ_OUT, workers, il,
                   captured, bbs_final>>

NextCallstack ==
    \/ \E kind \in ResolvedKinds : ListBlock(kind)
    \/ FmtCallstack
    \/ SerializeList

SpecCallstack == InitCallstack /\ [][NextCallstack]_vars

(***************************************************************************)
(* panda-gdb monitor commands (monitor_commands/parser.rs, mod.rs). A      *)
(* command line is the sequence of its lexemes: a keyword, " " (one        *)
(* whitespace character), "*", a number, a register name, another word.    *)
(***************************************************************************)
\* longest command line typed lexeme by lexeme
MaxCmdLen == 3
Keywords == {"help", "meminfo", "taint", "check_taint", "get_taint"}
\* "dec": decimal digits, "hex": 0x and hex digits, "reg": a name
\* Reg::from_str accepts, "word": a name it rejects
Lexemes == Keywords \cup {" ", "*", "dec", "hex", "reg", "word"}

RECURSIVE TrimStart(_)
TrimStart(cmd) ==
    IF cmd # << >> /\ Head(cmd) = " " THEN TrimStart(Tail(cmd)) ELSE cmd
RECURSIVE TrimEnd(_)
TrimEnd(cmd) ==
    IF cmd # << >> /\ cmd[Len(cmd)] = " "
    THEN TrimEnd(SubSeq(cmd, 1, Len(cmd) - 1))
    ELSE cmd
\* str::trim (mod.rs:10)
Trim(cmd) == TrimEnd(TrimStart(cmd))

\* The rules below take the input and a position and give the position after
\* the match, or 0 when the rule fails there.
Literal(t, i, word) ==
    IF i >= 1 /\ i <= Len(t) /\ t[i] = word THEN i + 1 ELSE 0

RECURSIVE SkipWs(_, _)
SkipWs(t, i) == IF i <= Len(t) /\ t[i] = " " THEN SkipWs(t, i + 1) ELSE i
\* rule _() = [' ' | '\n' | '\t']+ (parser.rs:68)
Ws(t, i) == IF i >= 1 /\ i <= Len(t) /\ t[i] = " " THEN SkipWs(t, i) ELSE 0

\* rule number() (parser.rs:57-66)
number(t, i) ==
    IF i >= 1 /\ i <= Len(t) /\ t[i] \in {"dec", "hex"} THEN i + 1 ELSE 0

\* rule register() (parser.rs:51-55): a name is lexed, reg.parse() decides
register(t, i) == Literal(t, i, "reg")

\* rule taint_target() (parser.rs:41-43)
taint_target(t, i) ==
    IF number(t, Literal(t, i, "*")) # 0
    THEN [end |-> number(t, Literal(t, i, "*")), target |-> "Address"]
    ELSE [end |-> register(t, i), target |-> "Register"]

Parsed(name, target) == [ok |-> TRUE, command |-> name, target |-> target]
ParseError == [ok |-> FALSE, command |-> "ParseError", target |-> "-"]

\* rule taint() (parser.rs:36-39), up to the end of input
taint(t) ==
    LET tt == taint_target(t, Ws(t, Literal(t, 1, "taint")))
    IN  IF number(t, Ws(t, tt.end)) = Len(t) + 1
        THEN Parsed("Taint", tt.target) ELSE ParseError

\* rule check_taint() (parser.rs:45-46)
check_taint(t) ==
    LET tt == taint_target(t, Ws(t, Literal(t, 1, "check_taint")))
    IN  IF tt.end = Len(t) + 1
        THEN Parsed("CheckTaint", tt.target) ELSE ParseError

\* rule get_taint() (parser.rs:48-49)
get_taint(t) ==
    LET tt == taint_target(t, Ws(t, Literal(t, 1, "get_taint")))
    IN  IF tt.end = Len(t) + 1
        THEN Parsed("GetTaint", tt.target) ELSE ParseError

\* rule help() (parser.rs:33-34): the keyword and at least one whitespace
help(t) ==
    IF Ws(t, Literal(t, 1, "help")) = Len(t) + 1
    THEN Parsed("Help", "-") ELSE ParseError

\* rule command() (parser.rs:26-31), as Command::parse runs it on the whole
\* input (parser.rs:14-16)
command(t) ==
    IF taint(t).ok THEN taint(t)
    ELSE IF check_taint(t).ok THEN check_taint(t)
    ELSE IF get_taint(t).ok THEN get_taint(t)
    ELSE IF help(t).ok THEN help(t)
    ELSE ParseError

\* Mutant: whatever the parse result, a register is tainted.
DispatchTaintOnError(m, r) ==
    [m EXCEPT !.stage = "handled", !.dispatched = r.command,
              !.out = "tainted", !.labelled = @ \cup {"Register"}]
\* the arms of handle_command (mod.rs:12-82): what the parse result makes it
\* do to the taint labels, the taint oracle, the CPU and the sink
Dispatch(m, r) ==
    CASE r.command = "Taint" ->
            [m EXCEPT !.stage = "handled", !.dispatched = r.command,
                      !.out = "tainted",
                      !.labelled = @ \cup {r.target},
                      !.cpu_used = @ \/ r.target = "Address"]
      [] r.command \in {"CheckTaint", "GetTaint"} ->
            [m EXCEPT !.stage = "handled", !.dispatched = r.command,
                      !.out = "taint_query",
                      !.queried = @ \cup {r.target},
                      !.cpu_used = @ \/ r.target = "Address"]
      [] r.command = "MemInfo" ->
            [m EXCEPT !.stage = "handled", !.dispatched = r.command,
                      !.out = "memory_map", !.cpu_used = TRUE]
      [] r.command = "Help" ->
            [m EXCEPT !.stage = "handled", !.dispatched = r.command,
                      !.out = "help_text"]
      [] OTHER ->
            [m EXCEPT !.stage = "handled", !.dispatched = r.command,
                      !.out = "diagnostic"]

\* the commands the monitor grammar derives, lexemes separated by one
\* whitespace
Numbers == {<<"dec">>, <<"hex">>}
Targets == {<<"*">> \o n : n \in Numbers} \cup {<<"reg">>}
GrammarCommands ==
    {<<"help">>, <<"meminfo">>}
       \cup {<<"taint", " ">> \o tg \o <<" ">> \o n :
                tg \in Targets, n \in Numbers}
       \cup {<<kw, " ">> \o tg : kw \in {"check_taint", "get_taint"},
                                 tg \in Targets}

InitMonitor ==
    /\ arch = "x86_64"
    /\ BridgeLoaded
    /\ IlTraceLoaded
    /\ asm = NoAssembly
    /\ block = NoBlock
    /\ mon = [NoMonitor EXCEPT !.stage = "typing"]

\* the user types one more lexeme of a monitor command
TypeLexeme(x) ==
    /\ mon.stage = "typing"
    /\ Len(mon.cmd) < MaxCmdLen
    /\ mon' = [mon EXCEPT !.cmd = Append(@, x)]
    /\ UNCHANGED <<ilVars, arch, phase, single_step, breakpoints, cpu, pcCell,
                   pid, brk, brkBy, cont, icount, emu, dbg>>

\* the user types a command of the grammar, with or without whitespace
\* around it
TypeCommand(c, before, after) ==
    /\ mon.stage = "typing"
    /\ mon.cmd = << >>
    /\ mon' = [mon EXCEPT !.cmd = (IF before THEN <<" ">> ELSE << >>) \o c
                                    \o (IF after THEN <<" ">> ELSE << >>)]
    /\ UNCHANGED <<ilVars, arch, phase, single_step, breakpoints, cpu, pcCell,
                   pid, brk, brkBy, cont, icount, emu, dbg>>

\* handle_command (mod.rs:9-83)
HandleCommand ==
    /\ mon.stage = "typing"
    /\ mon' = Dispatch(mon, command(Trim(mon.cmd)))
    /\ UNCHANGED <<ilVars, arch, phase, single_step, breakpoints, cpu, pcCell,
                   pid, brk, brkBy, cont, icount, emu, dbg>>

\* the next monitor packet arrives
NextCommand ==
    /\ mon.stage = "handled"
    /\ mon' = [mon EXCEPT !.stage = "typing", !.cmd = << >>,
                          !.dispatched = "-", !.out = "-"]
    /\ UNCHANGED <<ilVars, arch, phase, single_step, breakpoints, cpu, pcCell,
                   pid, brk, brkBy, cont, icount, emu, dbg>>

NextMonitor ==
    \/ \E x \in Lexemes : TypeLexeme(x)
    \/ \E c \in GrammarCommands, before, after \in BOOLEAN :
          TypeCommand(c, before, after)
    \/ HandleCommand
    \/ NextCommand

SpecMonitor == InitMonitor /\ [][NextMonitor]_vars

(***************************************************************************)
(* il_trace branch detector: BasicBlock::find_branch (fil/bb.rs:163-312)   *)
(* walking the IR of one lifted block, instruction by instruction.         *)
(***************************************************************************)
\* most IR instructions in the control-flow graph of one lifted block
MaxIr == 3

\* scalars of the IR: the stack pointer, the return-address register, a
\* general register and a temporary of the lifter
SP == "rsp"
LR == "lr"
GPR == "rax"
TEMP == "temp_0"

\* expressions, by their form and the scalars in them (Expression::scalars)
Constant == [form |-> "Constant", scalars |-> << >>]
WideConstant == [form |-> "WideConstant", scalars |-> << >>]
ExpScalar(reg) == [form |-> "ExpScalar", scalars |-> <<reg>>]
ExpOther(reg) == [form |-> "Other", scalars |-> <<reg>>]

\* IR instructions: Operation::{Branch, Store, Load, Assign}, with or
\* without a guest address
Instruction(op, has_addr, dst, src) ==
    [op |-> op, has_addr |-> has_addr, address |-> 0, dst |-> dst,
     src |-> src]
IrBranches ==
    {Instruction("Branch", TRUE, "-", e) :
        e \in {Constant, WideConstant, ExpScalar(GPR), ExpScalar(TEMP),
               ExpOther(GPR)}}
      \cup {Instruction("Branch", FALSE, "-", Constant)}
IrOthers ==
    {Instruction("Store", TRUE, "-", ExpOther(SP)),
     Instruction("Load", TRUE, TEMP, ExpScalar(SP)),
     Instruction("Load", TRUE, TEMP, ExpOther(GPR)),
     Instruction("Load", TRUE, TEMP, Constant),
     Instruction("Assign", TRUE, TEMP, ExpScalar(LR)),
     Instruction("Assign", TRUE, LR, Constant),
     Instruction("Assign", TRUE, LR, ExpOther(LR))}
IrInstructions == IrBranches \cup IrOthers

\* Instruction::scalars_read / scalars_written / is_load / is_store
scalars_read(instr) == {instr.src.scalars[k] : k \in DOMAIN instr.src.scalars}
scalars_written(instr) ==
    IF instr.op \in {"Load", "Assign"} THEN {instr.dst} ELSE {}
\* loads_reg, stores_reg (fil/bb.rs:315-337)
loads_reg(instr, reg) == reg \in scalars_read(instr) /\ instr.op = "Load"
stores_reg(instr, reg) == reg \in scalars_read(instr) /\ instr.op = "Store"

\* maybe_call of the Branch at place i (from 1) of an IR block
\* (fil/bb.rs:174-229)
maybe_call(instrs, i, a) ==
    /\ i > 1
    /\ IF a \in StackArchs
       THEN stores_reg(instrs[i - 1], SP)
       ELSE LR \in scalars_written(instrs[i - 1])
\* maybe_ret of the Branch at place i (from 1) of an IR block
maybe_ret(instrs, i, a) ==
    /\ i > 1
    /\ IF a \in StackArchs
       THEN /\ i > 2
            /\ ~maybe_call(instrs, i, a)
            /\ (loads_reg(instrs[i - 2], SP) \/ loads_reg(instrs[i - 1], SP))
       ELSE LR \in scalars_read(instrs[i - 1])

RECURSIVE ResolveForward(_, _, _)
\* Mutant: the block is searched from its first instruction.
ResolveForward(instrs, scalar, k) ==
    IF k = 0 THEN "None"
    ELSE LET j == Len(instrs) - k + 1
         IN  IF /\ instrs[j].op \in {"Assign", "Load"}
                /\ instrs[j].dst = scalar
                /\ instrs[j].src.scalars # << >>
             THEN Head(instrs[j].src.scalars)
             ELSE ResolveForward(instrs, scalar, k - 1)

RECURSIVE resolve_reg_indirect(_, _, _)
\* resolve_reg_indirect (fil/bb.rs:339-362): the instructions of the block
\* from the last to the first, k the place looked at
resolve_reg_indirect(instrs, scalar, k) ==
    IF k = 0 THEN "None"
    ELSE IF /\ instrs[k].op \in {"Assign", "Load"}
            /\ instrs[k].dst = scalar
            /\ instrs[k].src.scalars # << >>
         THEN Head(instrs[k].src.scalars)
         ELSE resolve_reg_indirect(instrs, scalar, k - 1)

\* the arm for (Operation::Branch { target }, Some(site_pc)) of find_branch
\* (fil/bb.rs:169-303): a branch, "panic" when the assertion fails, or
\* "continue" when the loop goes on to the next instruction
BranchArm(instrs, i, seq, a) ==
    LET target == instrs[i].src
        site_pc == instrs[i].address
        call == maybe_call(instrs, i, a)
        ret == maybe_ret(instrs, i, a)
        reg == Head(target.scalars)
        ind_reg == IF reg = TEMP
                   THEN resolve_reg_indirect(instrs, reg, Len(instrs))
                   ELSE reg
    IN  IF ret /\ call THEN [kind |-> "panic"]
        ELSE IF target.form = "Constant"
        THEN IF call
             THEN [kind |-> "DirectCall", site_pc |-> site_pc,
                   dst_pc |-> DstPc]
             ELSE [kind |-> "DirectJump", site_pc |-> site_pc,
                   dst_pc |-> DstPc, taken |-> FALSE]
        ELSE IF target.form = "ExpScalar"
        THEN IF ret
             THEN [kind |-> "ReturnSentinel", site_pc |-> site_pc,
                   seq_num |-> seq]
             ELSE IF ind_reg = "None"
             THEN [kind |-> "DirectJumpSentinel", site_pc |-> site_pc,
                   seq_num |-> seq]
             ELSE IF call
             THEN [kind |-> "CallSentinel", site_pc |-> site_pc,
                   seq_num |-> seq, reg |-> ind_reg]
             ELSE [kind |-> "IndirectJumpSentinel", site_pc |-> site_pc,
                   seq_num |-> seq, reg |-> ind_reg]
        ELSE [kind |-> "continue"]

RECURSIVE FindLastBranch(_, _, _, _, _)
\* Mutant: a later Branch replaces the result of an earlier one.
FindLastBranch(cfg, b, i, seq, a) ==
    IF b > Len(cfg) THEN [kind |-> "None"]
    ELSE IF i > Len(cfg[b]) THEN FindLastBranch(cfg, b + 1, 1, seq, a)
    ELSE LET arm == IF cfg[b][i].op = "Branch" /\ cfg[b][i].has_addr
                    THEN BranchArm(cfg[b], i, seq, a)
                    ELSE [kind |-> "continue"]
             later == FindLastBranch(cfg, b, i + 1, seq, a)
         IN  IF arm.kind = "continue" \/ later.kind # "None"
             THEN later
             ELSE arm

RECURSIVE FindBranchLoop(_, _, _, _, _)
\* the two loops of find_branch (fil/bb.rs:166-167,304-309): IR block b,
\* place i in it
FindBranchLoop(cfg, b, i, seq, a) ==
    IF b > Len(cfg) THEN [kind |-> "None"]
    ELSE IF i > Len(cfg[b]) THEN FindBranchLoop(cfg, b + 1, 1, seq, a)
    ELSE LET arm == IF cfg[b][i].op = "Branch" /\ cfg[b][i].has_addr
                    THEN BranchArm(cfg[b], i, seq, a)
                    ELSE [kind |-> "continue"]
         IN  IF arm.kind = "continue"
             THEN FindBranchLoop(cfg, b, i + 1, seq, a)
             ELSE arm

\* find_branch on a block with its translation (fil/bb.rs:163-313)
FindBranchOf(b, a) ==
    IF b.translation = "Some"
    THEN FindBranchLoop(b.cfg, 1, 1, b.seq_num, a)
    ELSE [kind |-> "None"]

\* instructions in a control-flow graph so far
RECURSIVE InstrCount(_)
InstrCount(cfg) ==
    IF cfg = << >> THEN 0 ELSE Len(Head(cfg)) + InstrCount(Tail(cfg))

\* a block handed to the lifter, on an x86 and on a link-register build
InitDetect ==
    /\ arch \in {"x86_64", "ppc"}
    /\ GdbLoaded
    /\ IlTraceLoaded
    /\ asm = NoAssembly
    /\ \E seq \in {0, MaxBlocks - 1} :
          block = [at |-> "lifting", seq_num |-> seq, translation |-> "Some",
                   cfg |-> << >>, branch |-> [kind |-> "None"]]

\* the lifter emits the next instruction, in the current IR block or in a
\* new one; its guest address is its place in the graph
LiftInstruction(instr, new_block) ==
    /\ block.at = "lifting"
    /\ InstrCount(block.cfg) < MaxIr
    /\ new_block \/ block.cfg # << >>
    /\ LET placed == [instr EXCEPT !.address = InstrCount(block.cfg)]
       IN  block' = [block EXCEPT !.cfg =
                        IF new_block THEN Append(@, <<placed>>)
                        ELSE [@ EXCEPT ![Len(@)] = Append(@, placed)]]
    /\ UNCHANGED <<arch, gdbVars, BB_NUM, BBQ_IN, BBQ_OUT, workers, il,
                   captured, bbs_final, asm>>

\* BasicBlock::lift stores the translation (fil/bb.rs:136-151)
LiftDone ==
    /\ block.at = "lifting"
    /\ block' = [block EXCEPT !.at = "lifted"]
    /\ UNCHANGED <<arch, gdbVars, BB_NUM, BBQ_IN, BBQ_OUT, workers, il,
                   captured, bbs_final, asm>>

\* the lift fails: translation stays None
LiftFails ==
    /\ block.at = "lifting"
    /\ block.cfg = << >>
    /\ block' = [block EXCEPT !.at = "lifted", !.translation = "None"]
    /\ UNCHANGED <<arch, gdbVars, BB_NUM, BBQ_IN, BBQ_OUT, workers, il,
                   captured, bbs_final, asm>>

\* self.branch = self.find_branch() (fil/bb.rs:158); a failed assertion
\* ends the process
FindBranch ==
    /\ block.at = "lifted"
    /\ LET found == FindBranchOf(block, arch)
       IN  block' = IF found.kind = "panic"
                    THEN [block EXCEPT !.at = "aborted"]
                    ELSE [block EXCEPT !.at = "found", !.branch = found]
    /\ UNCHANGED <<arch, gdbVars, BB_NUM, BBQ_IN, BBQ_OUT, workers, il,
                   captured, bbs_final, asm>>

NextDetect ==
    \/ \E instr \in IrInstructions, new_block \in BOOLEAN :
          LiftInstruction(instr, new_block)
    \/ LiftDone
    \/ LiftFails
    \/ FindBranch

SpecDetect == InitDetect /\ [][NextDetect]_vars

(***************************************************************************)
(* Claims about the debug bridge.                                          *)
(***************************************************************************)
Accessing(t) == dbg[t].at = "io_access"

\* C1: whenever an RSP server thread is reading or writing guest CPU state
\* (it is inside read_registers, write_registers, read_addrs or write_addrs
\* and holds the pointer wait_for_cpu returned), the emulation thread is in
\* every_instruction, blocked in STATE.cont.wait_for().
C1_AccessOnlyWhileEmulationBlocked ==
    \A t \in Threads : Accessing(t) => emu.at = "ei_wait"

\* The step in which thread t's resume returns from STATE.brk.wait_for().
ResumeReturns(t) == dbg[t].at = "res_wait" /\ dbg'[t].at = "res_ret"

\* C2: the rendezvous alternates brk(Break) -> debug work -> cont -> brk(Break):
\* whenever a resume returns on a Break, that Break was signalled by an
\* instruction callback that began after the same resume signalled `cont`
\* (never one signalled before it, such as the initial stop at attach).
C2_ResumeConsumesOnlyLaterBreak ==
    [][\A t \in Threads :
          (ResumeReturns(t) /\ brk = "Break") => brkBy > dbg[t].contAt]_vars

\* What one step of every_instruction may change of the rendezvous, by the
\* position it is taken from.
EmuMoves == emu' # emu
OthersUnchanged(changed) ==
    /\ "single_step" \in changed \/ single_step' = single_step
    /\ "cpu" \in changed \/ cpu' = cpu
    /\ "pcCell" \in changed \/ pcCell' = pcCell
    /\ "brk" \in changed \/ brk' = brk
    /\ "cont" \in changed \/ cont' = cont
    /\ breakpoints' = breakpoints /\ pid' = pid

\* C3: the instruction callback breaks iff the single-step flag is set when
\* it is tested or, failing that, the PC is in the breakpoint set when that is
\* tested; a breaking callback clears the single-step flag, publishes the CPU
\* pointer, publishes the PC, signals brk(Break), blocks on `cont` and revokes
\* the CPU pointer, in this order; a callback that does not break changes no
\* rendezvous state and signals nothing.
C3_CallbackBreaksIffInteresting ==
    [][EmuMoves =>
         CASE emu.at = "idle" ->
                /\ emu'.at = IF single_step THEN "ei_clear" ELSE "ei_bp"
                /\ OthersUnchanged({})
           [] emu.at = "ei_bp" ->
                /\ emu'.at = IF emu.pc \in breakpoints THEN "ei_clear" ELSE "idle"
                /\ OthersUnchanged({})
           [] emu.at = "ei_clear" ->
                /\ emu'.at = "ei_setcpu" /\ single_step' = FALSE
                /\ OthersUnchanged({"single_step"})
           [] emu.at = "ei_setcpu" ->
                /\ emu'.at = "ei_setpc" /\ cpu' = emu.id
                /\ OthersUnchanged({"cpu"})
           [] emu.at = "ei_setpc" ->
                /\ emu'.at = "ei_brk" /\ pcCell' = emu.pc
                /\ OthersUnchanged({"pcCell"})
           [] emu.at = "ei_brk" ->
                /\ emu'.at = "ei_wait" /\ brk' = "Break"
                /\ OthersUnchanged({"brk"})
           [] emu.at = "ei_wait" ->
                /\ emu'.at = "ei_unset" /\ cont # NoSignal /\ cont' = NoSignal
                /\ OthersUnchanged({"cont"})
           [] emu.at = "ei_unset" ->
                /\ emu'.at = "idle" /\ cpu' = NullCpu
                /\ OthersUnchanged({"cpu"})]_vars

\* A callback that broke on a breakpoint (the flag was clear), was released by
\* `cont` and is about to revoke the pointer it published.
C3_Witness ==
    /\ emu.at = "ei_unset" /\ emu.why = "breakpoint"
    /\ cpu = emu.id /\ pcCell = emu.pc /\ cont = NoSignal

\* C4: resume(Step) sets the single-step flag, then signals `cont`, then waits
\* on `brk`, and returns DoneStep on Break and Exited(0) on Exit;
\* resume(Continue) signals `cont` without touching the single-step flag,
\* waits on `brk`, and returns SwBreak on Break and Exited(0) on Exit.
C4_ResumeStopReason ==
    [][\A t \in Threads :
          /\ (dbg[t].at = "idle" /\ dbg'[t].at = "res_cont") =>
                /\ dbg'[t].act = "Step"
                /\ single_step' = TRUE /\ cont' = cont /\ brk' = brk
          /\ (dbg[t].at = "res_cont" /\ dbg'[t] # dbg[t]) =>
                /\ dbg[t].act = "Step" /\ dbg'[t].at = "res_wait"
                /\ dbg'[t].act = "Step"
                /\ cont' = "unit" /\ single_step' = single_step /\ brk' = brk
          /\ (dbg[t].at = "idle" /\ dbg'[t].at = "res_wait") =>
                /\ dbg'[t].act = "Continue"
                /\ cont' = "unit" /\ single_step' = single_step /\ brk' = brk
          /\ (dbg[t].at = "res_wait" /\ dbg'[t].at # "res_wait") =>
                /\ dbg'[t].at = "res_ret"
                /\ brk \in {"Break", "Exit"} /\ brk' = NoSignal
                /\ single_step' = single_step /\ cont' = cont
                /\ dbg'[t].res =
                     CASE brk = "Exit" -> "Exited"
                       [] brk = "Break" /\ dbg[t].act = "Step" -> "DoneStep"
                       [] brk = "Break" /\ dbg[t].act = "Continue" -> "SwBreak"]_vars

\* A resume(Step) has returned DoneStep.
C4_Witness ==
    \E t \in Threads : dbg[t].at = "res_ret" /\ dbg[t].res = "DoneStep"

\* C5: the published CPU pointer is non-null only while the emulation thread
\* is inside a breaking instruction callback, between set_cpu and unset_cpu,
\* and it is that callback's pointer; outside every_instruction it is null.
C5_PointerOnlyInsideBreakingCallback ==
    /\ cpu # NullCpu =>
          /\ emu.at \in {"ei_setpc", "ei_brk", "ei_wait", "ei_unset"}
          /\ cpu = emu.id
    /\ emu.at = "idle" => cpu = NullCpu

\* A breaking callback has signalled Break, was released and has returned:
\* its Break is still pending and the pointer is null again.
C5_Witness ==
    emu.at = "idle" /\ brk = "Break" /\ brkBy > 0 /\ cpu = NullCpu

\* C6: a register or memory I/O request issued while no CPU pointer is
\* published does not get past wait_for_cpu until an instruction callback has
\* published one, and it never works with a null pointer or with a pointer
\* the emulation thread has revoked in the meantime.
C6_IoNeverUsesNullOrRevokedPointer ==
    [][\A t \in Threads :
          /\ (dbg[t].at = "io_wait" /\ dbg[t].nullAtCall /\ dbg'[t] # dbg[t]) =>
                /\ cpu # NullCpu
                /\ dbg'[t].at = "io_access" /\ dbg'[t].held = cpu
          /\ (dbg'[t].at = "io_access" /\ dbg'[t].nullAtCall) =>
                /\ dbg'[t].held # NullCpu
                /\ dbg'[t].held = cpu']_vars

\* C7: when the host shuts down or the attached process ends while an RSP
\* thread is blocked in resume awaiting `brk`, that resume returns Exited(0):
\* the return of a resume during whose wait an Exit was signalled reports
\* Exited.
C7_ExitDuringResumeReportsExited ==
    [][\A t \in Threads :
          (ResumeReturns(t) /\ dbg[t].exitSeen) => dbg'[t].res = "Exited"]_vars

\* The other cells of STATE and the emulation thread are left alone.
RestUnchanged == UNCHANGED <<breakpoints, cpu, pcCell, cont, emu>>

\* C8: on_process_start attaches (records the pid as the attached PID, sets
\* the single-step flag, spawns one RSP server thread) iff no PID is attached
\* and the process name equals the configured target; in every other case
\* the attached PID, the single-step flag and the server threads are
\* unchanged.
C8_AttachIffUnattachedAndNameMatches ==
    [][\A name \in ProcNames, p \in Pids :
          OnProcessStart(name, p, MaxThreads) =>
             /\ IF pid = NoPid /\ name = TargetFile
                THEN /\ pid' = p
                     /\ single_step' = TRUE
                     /\ \E t \in Threads :
                           /\ dbg[t].at = "none" /\ dbg'[t].at = "idle"
                           /\ \A u \in Threads \ {t} : dbg'[u] = dbg[u]
                ELSE /\ pid' = pid
                     /\ single_step' = single_step
                     /\ dbg' = dbg
             /\ brk' = brk
             /\ RestUnchanged]_vars

\* A matching process start has attached: its pid is recorded, the flag is
\* set and the first RSP server thread is serving packets.
C8_Witness ==
    /\ pid \in Pids /\ single_step /\ icount = 0
    /\ dbg[1].at = "idle" /\ \A t \in Threads \ {1} : dbg[t].at = "none"

\* C9: on_process_end for the attached PID clears the attached PID and
\* signals brk(Exit); for any other pid, or when nothing is attached, it
\* changes nothing and signals nothing; host shutdown signals brk(Exit)
\* whether or not a process is attached.
C9_ExitSignalledOnEndOfAttachedAndOnShutdown ==
    [][/\ \A p \in Pids :
             OnProcessEnd(p) =>
                /\ IF pid = p
                   THEN pid' = NoPid /\ brk' = "Exit"
                   ELSE pid' = pid /\ brk' = brk
                /\ single_step' = single_step
                /\ RestUnchanged
       /\ OnShutdown =>
             /\ brk' = "Exit"
             /\ pid' = pid /\ single_step' = single_step
             /\ RestUnchanged]_vars

\* The attached process has ended while its debugger was not waiting in
\* resume: it is detached and the Exit is pending.
C9_Witness ==
    /\ phase = "running" /\ pid = NoPid /\ brk = "Exit"
    /\ \E t \in Threads : Live(t)

\* C10: at most one RSP server thread is running at any time, whatever the
\* sequence of init (with or without on_start), process-start and process-end
\* events.
C10_AtMostOneDebuggerThread == Cardinality(LiveThreads) <= 1

\* the step changes nothing but the locals of thread t
OnlyThreadMoves(t) ==
    /\ UNCHANGED <<mon, ilVars, arch, phase, single_step, breakpoints, cpu, pcCell, pid,
                   brk, brkBy, cont, icount, emu>>
    /\ \A u \in Threads \ {t} : dbg'[u] = dbg[u]

C12_WriteThenReadRoundTripsPc ==
    [][\A t \in Threads, x \in PCs :
          WriteRegisters(t, x) =>
             /\ pcCell' = x
             /\ ReadRegistersPc(arch, pcCell') = <<x>>]_vars

\* C13: read_addrs returns the non-fatal error when the guest read fails and
\* success when it succeeds; write_addrs returns success whether or not the
\* guest write took effect; neither changes the rendezvous state (signals,
\* pointer, PC cell, flag, pid) or the breakpoint set.
C13_MemoryAccessOutcomes ==
    [][\A t \in Threads :
          /\ \A readable \in BOOLEAN :
                ReadAddrs(t, readable) =>
                   /\ ReadAddrsResult(readable) = "Ok" <=> readable
                   /\ ReadAddrsResult(readable) = "NonFatal" <=> ~readable
                   /\ OnlyThreadMoves(t)
          /\ WriteAddrs(t) =>
                /\ \A written \in BOOLEAN : WriteAddrsResult(written) = "Ok"
                /\ OnlyThreadMoves(t)]_vars

\* A memory request is being served inside a break: the thread holds the
\* pointer of the callback that is blocked on `cont`.
C13_Witness ==
    \E t \in Threads :
       /\ dbg[t].at = "io_access" /\ dbg[t].held = emu.id
       /\ emu.at = "ei_wait"

(***************************************************************************)
(* Claims about the capture pipeline.                                      *)
(***************************************************************************)
SeqNums(q) == {q[i].seq_num : i \in DOMAIN q}
\* the blocks held by worker loops
HeldByWorkers == {w \in DOMAIN workers : workers[w].bb # << >>}

\* C14: when N blocks have been captured their sequence numbers are exactly
\* 0 .. N-1, without duplicate or gap, and they were given in emulation
\* order (the i-th accepted block carries i-1); the processed blocks carry
\* these numbers whatever order the workers finished in.
C14_SeqNumsMatchEmulationOrder ==
    /\ Len(captured) = BB_NUM
    /\ \A i \in DOMAIN captured : captured[i] = i - 1
    /\ SeqNums(BBQ_IN) \cup SeqNums(BBQ_OUT) \cup SeqNums(bbs_final)
          \subseteq {captured[i] : i \in DOMAIN captured}
    /\ \A i, j \in DOMAIN BBQ_OUT :
          i # j => BBQ_OUT[i].seq_num # BBQ_OUT[j].seq_num

\* Two blocks were captured and the workers finished them in reverse order.
C14_Witness ==
    /\ BB_NUM = MaxBlocks
    /\ Len(BBQ_OUT) > 1
    /\ BBQ_OUT[1].seq_num > BBQ_OUT[2].seq_num

\* C15: when uninit leaves its wait loop and calls finalize_bbs, BBQ_IN is
\* empty, no worker holds a block and BBQ_OUT holds each captured block once
\* (BB_NUM blocks, every sequence number below BB_NUM); the vector handed to
\* the assembler holds exactly these blocks.
C15_AllLiftsDrainedAtAssembly ==
    /\ il.at \in {"finalize", "assemble"} =>
          /\ BBQ_IN = << >>
          /\ HeldByWorkers = {}
    /\ il.at = "finalize" =>
          /\ Len(BBQ_OUT) = BB_NUM
          /\ SeqNums(BBQ_OUT) = 0..(BB_NUM - 1)
    /\ il.at = "assemble" =>
          /\ Len(bbs_final) = BB_NUM
          /\ SeqNums(bbs_final) = 0..(BB_NUM - 1)

\* uninit has handed every block of a full run to the assembler.
C15_Witness ==
    /\ il.at = "assemble"
    /\ BB_NUM = MaxBlocks
    /\ Len(bbs_final) = MaxBlocks

\* C16: once uninit is waiting for the lifts, fair scheduling of the workers
\* brings it out of the wait loop and on to assembly, whatever the blocks
\* are (lift failures and unclassifiable terminators included).
C16_ShutdownTerminates ==
    (il.at = "uninit_sleep") ~> (il.at = "assemble")

(***************************************************************************)
(* Claims about the assembler.                                             *)
(***************************************************************************)
Assembled == asm.stage = "assembled"
BlocksOf(list) == {list[k] : k \in 1..Len(list)}
\* the blocks of bb's address space executed after bb
LaterInAsid(list, bb) ==
    {c \in BlocksOf(list) : c.asid = bb.asid /\ c.seq_num > bb.seq_num}
HasSuccessor(list, bb) == LaterInAsid(list, bb) # {}
Successor(list, bb) ==
    CHOOSE c \in LaterInAsid(list, bb) :
        \A d \in LaterInAsid(list, bb) : c.seq_num <= d.seq_num
\* the block of the output that carries the number of an input block
OutputOf(ib) == CHOOSE ob \in BlocksOf(asm.list) : ob.seq_num = ib.seq_num

\* C17: after assembly, every block whose branch is a final IndirectCall,
\* IndirectJump or Return names as dst_pc the pc of the next block of its own
\* asid in seq_num order.
C17_IndirectDstIsNextInAsid ==
    Assembled =>
        \A bb \in BlocksOf(asm.list) :
            bb.branch.kind \in {"IndirectCall", "IndirectJump", "Return"}
            => /\ HasSuccessor(asm.list, bb)
               /\ bb.branch.dst_pc = Successor(asm.list, bb).pc

\* C18: after assembly, a DirectJump is marked taken exactly when its block
\* has a next block in the same asid and that block starts at the recorded
\* dst_pc.
C18_TakenIffNextPcIsDst ==
    Assembled =>
        \A bb \in BlocksOf(asm.list) :
            bb.branch.kind = "DirectJump"
            => (bb.branch.taken <=>
                  /\ HasSuccessor(asm.list, bb)
                  /\ Successor(asm.list, bb).pc = bb.branch.dst_pc)

\* finalize_bbs has assembled a vector in which a detected direct jump was
\* followed, although a block of another address space ran between the
\* jump's block and the block at the jump's target.
C18_Witness ==
    /\ Assembled /\ asm.by = "finalize_bbs"
    /\ \E k, j \in 1..Len(asm.input) :
          /\ asm.input[k].branch.kind = "DirectJump"
          /\ OutputOf(asm.input[k]).branch.taken
          /\ asm.input[j].asid # asm.input[k].asid
          /\ asm.input[j].seq_num = asm.input[k].seq_num + 1

BlockId(bb) == <<bb.seq_num, bb.pc, bb.asid, bb.pid, bb.ppid>>

\* C19: the assembled list is a permutation of the input vector: same length,
\* every input block exactly once with seq_num, pc, asid, pid and ppid
\* unchanged; the blocks of one asid are contiguous and in ascending seq_num
\* order.
C19_OutputIsGroupedPermutation ==
    Assembled =>
        /\ Len(asm.list) = Len(asm.input)
        /\ \A k \in 1..Len(asm.input) :
              Cardinality({j \in 1..Len(asm.list) :
                              BlockId(asm.list[j]) = BlockId(asm.input[k])}) = 1
        /\ \A i, j, k \in 1..Len(asm.list) :
              (i < j /\ j < k /\ asm.list[i].asid = asm.list[k].asid)
              => asm.list[j].asid = asm.list[i].asid
        /\ \A i, j \in 1..Len(asm.list) :
              (i < j /\ asm.list[i].asid = asm.list[j].asid)
              => asm.list[i].seq_num < asm.list[j].seq_num

\* a full vector that arrived in reverse capture order, with the blocks of
\* one address space separated by a block of the other, has been assembled.
C19_Witness ==
    /\ Assembled /\ ~asm.up /\ Len(asm.input) = MaxVec
    /\ \E i, j, k \in 1..Len(asm.input) :
          /\ i < j /\ j < k
          /\ asm.input[i].asid = asm.input[k].asid
          /\ asm.input[j].asid # asm.input[i].asid
    /\ asm.list # asm.input

\* the final form of a sentinel whose block is followed by a block at dst_pc
FinalForm(branch, dst_pc) ==
    CASE branch.kind = "CallSentinel" ->
            [kind |-> "IndirectCall", site_pc |-> branch.site_pc,
             dst_pc |-> dst_pc, reg_used |-> branch.reg]
      [] branch.kind = "IndirectJumpSentinel" ->
            [kind |-> "IndirectJump", site_pc |-> branch.site_pc,
             dst_pc |-> dst_pc, reg_used |-> branch.reg]
      [] branch.kind = "ReturnSentinel" ->
            [kind |-> "Return", site_pc |-> branch.site_pc, dst_pc |-> dst_pc]
      [] branch.kind = "DirectJumpSentinel" ->
            [kind |-> "DirectJump", site_pc |-> branch.site_pc,
             dst_pc |-> dst_pc, taken |-> TRUE]

\* C20: for every block that has a successor in its asid partition, assembly
\* turns a sentinel into its final form with the same site_pc and register
\* and with the successor's pc as dst_pc, and leaves no sentinel in such a
\* block.
C20_SentinelsResolvedAgainstSuccessor ==
    Assembled =>
        \A k \in 1..Len(asm.input) :
            LET ib == asm.input[k]
            IN  HasSuccessor(asm.input, ib)
                => /\ OutputOf(ib).branch.kind \notin Sentinels
                   /\ ib.branch.kind \in Sentinels
                      => OutputOf(ib).branch
                            = FinalForm(ib.branch, Successor(asm.input, ib).pc)

\* C21: a block with no successor in its asid partition (the last block of a
\* partition, a single block) comes out of assembly with the branch it had
\* on input, and assembly does not fail.
C21_LastOfPartitionUntouched ==
    /\ asm.stage # "panicked"
    /\ Assembled =>
          \A k \in 1..Len(asm.input) :
              ~HasSuccessor(asm.input, asm.input[k])
              => OutputOf(asm.input[k]).branch = asm.input[k].branch

\* C22: when the successor of a sentinel block in its asid partition does not
\* carry seq_num + 1, assembly leaves the sentinel in place: the branch is
\* not resolved against a block that did not run right after it.
C22_GapLeavesSentinel ==
    Assembled =>
        \A k \in 1..Len(asm.input) :
            LET ib == asm.input[k]
            IN  (/\ ib.branch.kind \in Sentinels
                 /\ HasSuccessor(asm.input, ib)
                 /\ Successor(asm.input, ib).seq_num # ib.seq_num + 1)
                => OutputOf(ib).branch = ib.branch

(***************************************************************************)
(* Claims about one BasicBlock.                                            *)
(***************************************************************************)
\* C23: in every state of a block - new, after any number of lift() and
\* process() calls, after the assembler resolved it - a branch that is Some
\* comes with a translation that is Some.
C23_BranchImpliesTranslation ==
    block.at = "made" =>
        (block.branch.kind # "None" => block.translation = "Some")

\* a processed block has had its sentinel resolved by the assembler
C23_Witness ==
    /\ block.at = "made" /\ block.calls > 0
    /\ block.branch.kind = "IndirectCall"
    /\ block.translation = "Some"

\* C24: however often lift() and process() are called on a block, the
\* translator is asked to lift it at most once, whether that attempt
\* succeeded or failed.
C24_LiftAttemptedAtMostOnce ==
    block.at = "made" => block.lifts <= 1

\* C25: process() on a block that is already lifted changes neither its
\* translation nor its branch, whether the branch is None, a sentinel or a
\* branch the assembler resolved.
C25_ProcessIsIdempotent ==
    [][(BlockProcess /\ block.processed /\ block.translation = "Some")
          => /\ block'.translation = block.translation
             /\ block'.branch = block.branch]_vars

(***************************************************************************)
(* Claims about lift failures in the pipeline.                             *)
(***************************************************************************)
LiftFailed(b) == b.translation = "None"
\* the numbers of the blocks a worker found unliftable and has in hand
FailedInHand ==
    {workers[w].bb.seq_num :
        w \in {x \in DOMAIN workers :
                  workers[x].at = "push" /\ LiftFailed(workers[x].bb)}}
FailedIn(q) == {q[k].seq_num : k \in {j \in 1..Len(q) : LiftFailed(q[j])}}

\* C26: a failed lift is not fatal and loses no block: process() leaves
\* translation and branch None and the worker goes on to push the block; a
\* block that was pushed unlifted is in the list finalize_bbs hands on, and
\* trans_err_cnt of that list is the number of its blocks without a
\* translation (0 when all lifted).
C26_LiftFailureKeepsBlock ==
    /\ [][\A w \in Workers :
            WorkerProcess(w, "lift_failed")
            => /\ il' = il
               /\ workers'[w].at = "push"
               /\ workers'[w].bb.translation = "None"
               /\ workers'[w].bb.branch = "None"
               /\ workers'[w].bb.seq_num = workers[w].bb.seq_num]_vars
    /\ [][FailedInHand \cup FailedIn(BBQ_OUT) \cup FailedIn(bbs_final)
            \subseteq FailedInHand' \cup FailedIn(BBQ_OUT')
                         \cup FailedIn(bbs_final')]_vars
    /\ [](il.at \in {"assemble", "exited"}
            => /\ FailedInHand = {}
               /\ FailedIn(BBQ_OUT) = {}
               /\ trans_err_cnt(bbs_final) = Cardinality(FailedIn(bbs_final))
               /\ ((\A k \in 1..Len(bbs_final) : ~LiftFailed(bbs_final[k]))
                     => trans_err_cnt(bbs_final) = 0))

\* the list handed on by finalize_bbs holds a block whose lift failed next
\* to one that lifted
C26_Witness ==
    /\ il.at = "assemble"
    /\ trans_err_cnt(bbs_final) = 1
    /\ Len(bbs_final) = MaxBlocks

(***************************************************************************)
(* Claims about the call-stack renderer.                                   *)
(***************************************************************************)
RECURSIVE Groups(_, _, _)
\* the rendering of the blocks from position k on with depth groups open:
\* a call opens a group, a Return closes one if one is open, the rest adds
\* nothing, and the groups left open are closed at the end
Groups(list, k, depth) ==
    IF k > Len(list) THEN [j \in 1..depth |-> ")"]
    ELSE LET branch == list[k].branch
         IN  IF branch.kind \in Calls
             THEN <<"(", Display(branch)>> \o Groups(list, k + 1, depth + 1)
             ELSE IF branch.kind = "Return" /\ depth > 0
             THEN <<")">> \o Groups(list, k + 1, depth - 1)
             ELSE Groups(list, k + 1, depth)

\* C27: the renderer opens one group "(call-name" for every DirectCall and
\* IndirectCall, closes one open group for every Return (nothing when none
\* is open), adds nothing for jumps and blocks without a branch, closes the
\* groups still open at the end, and renders the empty trace as "()".
C27_CallstackGroups ==
    asm.stage = "rendered" =>
        asm.lisp = IF asm.list = << >> THEN <<"(", ")">>
                   ELSE Groups(asm.list, 1, 0)

(***************************************************************************)
(* Claims about the monitor commands.                                      *)
(***************************************************************************)
\* the command a line of the grammar asks for
CommandOf(c) ==
    CASE c[1] = "help" -> "Help"
      [] c[1] = "meminfo" -> "MemInfo"
      [] c[1] = "taint" -> "Taint"
      [] c[1] = "check_taint" -> "CheckTaint"
      [] c[1] = "get_taint" -> "GetTaint"

\* C28: every command line the grammar derives - help, meminfo,
\* taint <target> <NUMBER>, check_taint <target>, get_taint <target> - is
\* accepted by handle_command after its trim and dispatched to that command,
\* never reported as a parse error.
C28_GrammarCommandsAccepted ==
    (mon.stage = "handled" /\ Trim(mon.cmd) \in GrammarCommands)
    => mon.dispatched = CommandOf(Trim(mon.cmd))

\* C29: handling a command line that does not parse applies no taint label,
\* asks the taint oracle nothing and touches neither the CPU nor the
\* rendezvous state; it only writes a diagnostic to the sink.
C29_ParseErrorChangesNothing ==
    [][(HandleCommand /\ ~command(Trim(mon.cmd)).ok)
          => /\ mon'.labelled = mon.labelled
             /\ mon'.queried = mon.queried
             /\ mon'.cpu_used = mon.cpu_used
             /\ mon'.out = "diagnostic"
             /\ UNCHANGED <<stateVars, phase, emu, dbg>>]_vars

\* after a taint and a query were carried out, a line that does not parse
\* has been answered with a diagnostic
C29_Witness ==
    /\ mon.stage = "handled" /\ mon.dispatched = "ParseError"
    /\ mon.labelled # {} /\ mon.queried # {} /\ mon.cpu_used
    /\ Trim(mon.cmd) # << >>

(***************************************************************************)
(* Claims about the serialized trace.                                      *)
(***************************************************************************)
Keys(object) == [k \in 1..Len(object) |-> object[k][1]]
ValueOf(object, key) ==
    (CHOOSE pair \in {object[k] : k \in 1..Len(object)} : pair[1] = key)[2]

\* a branch is an object keyed by its variant name, integers in decimal, as
\* in {"IndirectCall":{"site_pc":0,"dst_pc":4919,"reg_used":"rax"}}
BranchEncoded(json, branch) ==
    IF branch.kind = "None" THEN json = <<"null">>
    ELSE /\ json[1] = branch.kind
         /\ ValueOf(json[2], "site_pc") = <<0>>
         /\ ValueOf(json[2], "dst_pc") = <<4, 9, 1, 9>>
         /\ branch.kind \in {"IndirectCall", "IndirectJump"}
               => ValueOf(json[2], "reg_used") = <<"rax">>

\* C30: a serialized block list has, for each block, exactly the fields
\* seq_num, pc, asid, pid, ppid, icount and branch - not the bytes, not the
\* lifted code - and the branch is an object keyed by the variant name with
\* decimal integers.
C30_SerializedFields ==
    asm.stage = "serialized" =>
        /\ Len(asm.json) = Len(asm.list)
        /\ \A k \in 1..Len(asm.json) :
              /\ Keys(asm.json[k]) = <<"seq_num", "pc", "asid", "pid", "ppid",
                                       "icount", "branch">>
              /\ BranchEncoded(ValueOf(asm.json[k], "branch"),
                               asm.list[k].branch)

(***************************************************************************)
(* Claims about block ownership and the block callback.                    *)
(***************************************************************************)
\* in how many places the block numbered n is
InQueue(q, n) == Cardinality({i \in DOMAIN q : q[i].seq_num = n})
InWorkers(n) == Cardinality({w \in HeldByWorkers : workers[w].bb.seq_num = n})
InCallback(n) == IF il.at = "cb_push" /\ il.bb.seq_num = n THEN 1 ELSE 0
InPipeline == Len(BBQ_IN) + Cardinality(HeldByWorkers) + Len(BBQ_OUT)

\* C31: every captured block is in exactly one place - with the callback that
\* is about to push it, in BBQ_IN, with one worker, in BBQ_OUT (or, once
\* drained, in the final vector); a worker gets a block only by popping the
\* head of BBQ_IN, processes it once and pushes it once; the blocks in the
\* queues and with the workers are never more than BB_NUM and exactly BB_NUM
\* while the emulation thread is outside the callback.  (An aborted process
\* has no pipeline left to speak of.)
C31_BlocksOwnedOnce ==
    /\ [](il.at # "aborted" => \A n \in 0..(BB_NUM - 1) :
             InCallback(n) + InQueue(BBQ_IN, n) + InWorkers(n)
                + InQueue(BBQ_OUT, n) + InQueue(bbs_final, n) = 1)
    /\ [](InPipeline <= BB_NUM)
    /\ [](il.at \in {"running", "uninit_sleep", "finalize"}
             => InPipeline = BB_NUM)
    /\ [][\A w \in DOMAIN workers :
            /\ (workers[w].at # "process" /\ workers'[w].at = "process")
               => /\ workers[w].at = "pop"
                  /\ workers'[w].bb = Head(BBQ_IN)
                  /\ BBQ_IN' = Tail(BBQ_IN)
            /\ (workers[w].at # "push" /\ workers'[w].at = "push")
               => /\ workers[w].at = "process"
                  /\ workers'[w].bb.seq_num = workers[w].bb.seq_num
            /\ (workers[w].at = "push" /\ workers'[w].at # "push")
               => /\ workers'[w] = IdleWorker
                  /\ BBQ_OUT' = Append(BBQ_OUT, workers[w].bb)]_vars

\* of a full run, one block waits in BBQ_IN, another is with a worker and the
\* emulation thread is outside the callback
C31_Witness ==
    /\ il.at = "running" /\ BB_NUM = MaxBlocks
    /\ BBQ_IN # << >> /\ HeldByWorkers # {}

\* the callback can be entered: the emulation thread is between two callbacks
CallbackReady == il.at = "running" /\ BB_NUM < MaxBlocks
\* the callback takes the next sequence number for a new block
Captures ==
    /\ BB_NUM' = BB_NUM + 1
    /\ il' = [il EXCEPT !.at = "cb_push", !.bb = NewBlock(BB_NUM)]
\* the conditions under which a block is to be captured
ToCapture(in_kernel, exit_code, trace_lib, in_so, name, readable) ==
    /\ ~in_kernel
    /\ exit_code <= TB_EXIT_IDX1
    /\ name = proc_name
    /\ (trace_lib \/ ~in_so)
    /\ readable

\* C32: a call of the block callback gives the block a sequence number exactly
\* when the CPU is not in kernel mode, exit_code is not above TB_EXIT_IDX1, the
\* process name is proc_name, trace_lib is set or the block is outside shared
\* objects, and the guest read succeeds; the numbered block is then pushed to
\* BBQ_IN.
C32_CapturesIffFiltersPass ==
    /\ CallbackReady =>
         \A in_kernel, trace_lib, in_so, readable \in BOOLEAN,
            exit_code \in ExitCodes, name \in ProcNames :
            (ENABLED (/\ EveryBasicBlock(in_kernel, exit_code, trace_lib,
                                         in_so, name, readable)
                      /\ Captures))
              <=> ToCapture(in_kernel, exit_code, trace_lib, in_so, name,
                            readable)
    /\ il.at = "cb_push" =>
         ENABLED (EveryBasicBlockPush /\ BBQ_IN' = Append(BBQ_IN, il.bb))

\* a block was captured and pushed, and the callback can be entered again
C32_Witness == CallbackReady /\ BB_NUM = 1 /\ BBQ_IN # << >>

\* C33: a call of the block callback whose guest read fails, or that a filter
\* rejects, returns with the pipeline as it was - BB_NUM, BBQ_IN and every
\* other variable unchanged, the emulation thread free for the next callback -
\* and it has no other outcome; the sequence numbers handed out so far are
\* 0, 1, ..., BB_NUM - 1 without a gap.
C33_DroppedBlockLeavesNoTrace ==
    /\ CallbackReady =>
         \A in_kernel, trace_lib, in_so, readable \in BOOLEAN,
            exit_code \in ExitCodes, name \in ProcNames :
            (~readable \/ in_kernel \/ exit_code > TB_EXIT_IDX1
                \/ name # proc_name \/ (~trace_lib /\ in_so))
              => /\ ENABLED (/\ EveryBasicBlock(in_kernel, exit_code,
                                                trace_lib, in_so, name,
                                                readable)
                             /\ UNCHANGED vars)
                 /\ ~ENABLED (/\ EveryBasicBlock(in_kernel, exit_code,
                                                 trace_lib, in_so, name,
                                                 readable)
                              /\ ~UNCHANGED <<BB_NUM, BBQ_IN, il>>)
    /\ Len(captured) = BB_NUM
    /\ \A i \in DOMAIN captured : captured[i] = i - 1

\* a block was captured and lifted, and the callback can be entered again with
\* a block that is dropped
C33_Witness == CallbackReady /\ BB_NUM = 1 /\ BBQ_IN = << >> /\ BBQ_OUT # << >>

Min(a, b) == IF a < b THEN a ELSE b
Max(a, b) == IF a > b THEN a ELSE b

\* C34 as stated: for h hardware threads init spawns min(1, h - 1) worker
\* loops and the worker pool has h - 1 threads.
C34_MinWorkerLoops ==
    il.at = "running" =>
        /\ Len(workers) = Min(1, il.cpu_total - 1)
        /\ il.pool = il.cpu_total - 1

\* C34, amended: for h hardware threads init spawns max(1, h - 1) worker
\* loops - one less than the hardware threads, but at least one - and the
\* worker pool has h threads.
C34_MaxWorkerLoops ==
    IlAlive =>
        /\ Len(workers) = Max(1, il.cpu_total - 1)
        /\ il.pool = il.cpu_total
        /\ il.cpu_total \in 1..MaxCpus

\* init has run on a machine with one hardware thread
C34_Witness == il.at = "running" /\ il.cpu_total = 1 /\ Len(workers) = 1

(***************************************************************************)
(* Claims about the branch detector.                                       *)
(***************************************************************************)
\* find_branch has returned a branch
BranchFound == block.at = "found" /\ block.branch.kind # "None"
\* the places (IR block, instruction) of a control-flow graph
Places(cfg) ==
    {p \in (DOMAIN cfg) \X (1..MaxIr) : p[2] \in DOMAIN cfg[p[1]]}
\* the place of the Branch the detector acted on
ActedOn ==
    CHOOSE p \in Places(block.cfg) :
        block.cfg[p[1]][p[2]].address = block.branch.site_pc
\* the instructions of an IR block that give scalar a value, and those of
\* them that take it from another scalar
AssignmentsTo(instrs, scalar) ==
    {k \in DOMAIN instrs :
        instrs[k].op \in {"Assign", "Load"} /\ instrs[k].dst = scalar}
SourcesOf(instrs, scalar) ==
    {k \in AssignmentsTo(instrs, scalar) : instrs[k].src.scalars # << >>}
\* the name a sentinel carries for register R
CarriedName(instrs, R) ==
    IF R # TEMP THEN R
    ELSE IF SourcesOf(instrs, R) = {} THEN "?"
    ELSE LET last == CHOOSE k \in SourcesOf(instrs, R) :
                        \A j \in SourcesOf(instrs, R) : j <= k
         IN  instrs[last].src.scalars[1]
\* the table of the detector; untraced says when a temporary counts as
\* having no source
BranchTable(instrs, i, seq, a, untraced) ==
    LET site == instrs[i].address
        target == instrs[i].src
        R == target.scalars[1]
    IN  IF target.scalars = << >>
        THEN IF maybe_call(instrs, i, a)
             THEN [kind |-> "DirectCall", site_pc |-> site, dst_pc |-> DstPc]
             ELSE [kind |-> "DirectJump", site_pc |-> site, dst_pc |-> DstPc,
                   taken |-> FALSE]
        ELSE IF maybe_ret(instrs, i, a)
        THEN [kind |-> "ReturnSentinel", site_pc |-> site, seq_num |-> seq]
        ELSE IF R = TEMP /\ untraced
        THEN [kind |-> "DirectJumpSentinel", site_pc |-> site,
              seq_num |-> seq]
        ELSE [kind |-> IF maybe_call(instrs, i, a) THEN "CallSentinel"
                       ELSE "IndirectJumpSentinel",
              site_pc |-> site, seq_num |-> seq,
              reg |-> CarriedName(instrs, R)]

\* C35 as stated: the branch returned follows the table, in which a temporary
\* target gives DirectJumpSentinel when the IR block has no assignment or
\* load to it.
C35_TableNoAssignment ==
    BranchFound =>
        LET instrs == block.cfg[ActedOn[1]]
        IN  block.branch =
               BranchTable(instrs, ActedOn[2], block.seq_num, arch,
                           AssignmentsTo(instrs, TEMP) = {})

\* C35, amended: the branch returned follows the table, in which a temporary
\* target gives DirectJumpSentinel when the IR block has no assignment or
\* load to it whose source holds a scalar; a sentinel for a temporary carries
\* the first scalar of the last such assignment or load of the block, and
\* every sentinel carries the seq_num of the block.
C35_TableNoScalarSource ==
    BranchFound =>
        LET instrs == block.cfg[ActedOn[1]]
        IN  block.branch =
               BranchTable(instrs, ActedOn[2], block.seq_num, arch,
                           SourcesOf(instrs, TEMP) = {})

\* a jump through a temporary loaded from a constant address came out as
\* DirectJumpSentinel, in the block numbered last
C35_Witness ==
    /\ BranchFound
    /\ block.branch.kind = "DirectJumpSentinel"
    /\ block.seq_num = MaxBlocks - 1
    /\ AssignmentsTo(block.cfg[ActedOn[1]], TEMP) # {}

\* the places of the Branch operations that have a guest address
AddressedBranches(cfg) ==
    {p \in Places(cfg) :
        cfg[p[1]][p[2]].op = "Branch" /\ cfg[p[1]][p[2]].has_addr}
\* place p comes before place q in IR order
Before(p, q) == p[1] < q[1] \/ (p[1] = q[1] /\ p[2] < q[2])
\* the first place of a non-empty set of places
FirstPlace(S) == CHOOSE p \in S : \A q \in S : p = q \/ Before(p, q)
\* targets the detector classifies: a constant that fits 64 bits, a scalar
Classified(cfg) ==
    {p \in AddressedBranches(cfg) :
        cfg[p[1]][p[2]].src.form \in {"Constant", "ExpScalar"}}

\* C36 as stated: what find_branch returns is None for a block whose lift
\* failed or that has no Branch with a guest address, and otherwise one
\* branch, of the first Branch with a guest address in IR order.
C36_FirstAddressedBranch ==
    block.at = "found" =>
        IF block.translation = "None" \/ AddressedBranches(block.cfg) = {}
        THEN block.branch.kind = "None"
        ELSE /\ block.branch.kind # "None"
             /\ ActedOn = FirstPlace(AddressedBranches(block.cfg))

\* C36, amended: what find_branch returns is None for a block whose lift
\* failed or that has no Branch with a guest address and a target that is a
\* constant of at most 64 bits or a single scalar, and otherwise one branch,
\* of the first such Branch in IR order; Branches with other targets are
\* passed over.
C36_FirstClassifiedBranch ==
    block.at = "found" =>
        IF block.translation = "None" \/ Classified(block.cfg) = {}
        THEN block.branch.kind = "None"
        ELSE /\ block.branch.kind # "None"
             /\ block.branch.site_pc
                   = LET p == FirstPlace(Classified(block.cfg))
                     IN  block.cfg[p[1]][p[2]].address

\* an instruction comes first, two Branches the detector classifies follow,
\* and a branch was returned
C36_Witness ==
    /\ BranchFound
    /\ Cardinality(Classified(block.cfg)) > 1
    /\ block.branch.site_pc > 0

\* C37: for every Branch with a guest address of every lifted block,
\* maybe_call and maybe_ret are not both true, so the assertion of
\* find_branch holds and find_branch never panics.
C37_MaybeCallRetExclusive ==
    /\ block.at # "aborted"
    /\ block.at = "lifted" =>
         \A p \in AddressedBranches(block.cfg) :
            ~(maybe_call(block.cfg[p[1]], p[2], arch)
                 /\ maybe_ret(block.cfg[p[1]], p[2], arch))

(***************************************************************************)
(* Claims about breakpoints and translated instructions.                   *)
(***************************************************************************)
\* C38: whenever the guest executes the instruction at an address that is in
\* the breakpoint set, the instruction callback runs and the emulation thread
\* breaks there, also when the breakpoint was added after the instruction had
\* been translated with translate_instr returning false: the guest never runs
\* through a breakpoint unseen.
C38_BreakpointsNeverMissed == block.unseen = {}

(***************************************************************************)
(* Claims about the rendezvous as a whole.                                 *)
(***************************************************************************)
\* the emulation thread waits on `cont` and nothing is pending there
EmuBlocked == emu.at = "ei_wait" /\ ~SignalPending(cont)
\* RSP thread t waits on `brk` or for the CPU pointer and nothing is there
DbgBlocked(t) ==
    \/ dbg[t].at = "res_wait" /\ ~SignalPending(brk)
    \/ dbg[t].at = "io_wait" /\ ~CpuPublished(cpu)
\* no RSP thread has been told that the target exited
NoExitTaken == \A t \in Threads : dbg[t].at # "done" /\ dbg[t].res # "Exited"

C39_BranchListKeepsBranches ==
    asm.stage = "branch_json" =>
        /\ {bb.seq_num : bb \in BlocksOf(asm.json)}
              = {bb.seq_num : bb \in {c \in BlocksOf(asm.list) : HasBranch(c)}}
        /\ \A bb \in BlocksOf(asm.json) : bb = OutputOf(bb)
====
